---- MODULE Spec2Model ----
(***************************************************************************)
(* Verification model of the Solend flash-loan liquidation bot.            *)
(*                                                                         *)
(* Several state machines share this module, each with its own             *)
(* specification:                                                          *)
(*   SpecCompose     liquidateAndRedeem, the flash-loan composer           *)
(*                   (src/src/liquidate.ts:273-480)                        *)
(*   SpecObligation  processObligation, the per-obligation loop            *)
(*                   (src/src/libs/processObligation.ts), and              *)
(*                   SpecObligationObserved, the same with the first       *)
(*                   evaluation on record                                  *)
(*   SpecJito        RateLimiter and JitoConnection, the execution client  *)
(*                   (src/src/libs/jito.ts:26-356)                         *)
(*   SpecLimiter     RateLimiter over day and month boundaries             *)
(*   SpecBundle      sendBundle over the same limiter and retry counter    *)
(*   SpecRelay       the relay's error statistics under makeJitoRequest    *)
(*   SpecBlockhash   getLatestBlockhash (src/src/libs/jito.ts:232-249)     *)
(*   SpecOracle      getTokenOracleData (src/src/libs/pyth.ts:19-166)      *)
(*   SpecWait        waitForBundle (src/src/libs/jito.ts:297-322), and     *)
(*                   SpecWaitFair, the same with a fair scheduler          *)
(*   SpecWaitStuckFair  the same for a bundle never reported as Pending,  *)
(*                   Landed or Failed                                      *)
(*   SpecPrices      getTokensOracleData (src/src/libs/pyth.ts:168-191)    *)
(*   SpecLoop        runLiquidator, the orchestrator                       *)
(*                   (src/src/liquidate.ts:104-241), and SpecLoopFair      *)
(*   SpecSort        sortBorrows and comparePubkeys                        *)
(*                   (src/src/config.ts:575-601)                           *)
(* A specification leaves the variables of the other machines unchanged.   *)
(***************************************************************************)
EXTENDS Integers, Sequences, FiniteSets, TLC

VARIABLES
    \* ---- liquidateAndRedeem (one attempt at a time) ----
    lpc,            \* position inside liquidateAndRedeem
    obligation,     \* the obligation argument: [deposits, borrows] reserve lists
    marketReserves, \* addresses of lendingMarket.reserves
    ixs,            \* the TransactionInstruction[] being composed
    simulation,     \* "none" | "ok" | "err": simulation.value.err of this attempt
    sendCalls,      \* sendRawTransaction calls made by this attempt
    chainTxs,       \* transactions this attempt had executed on chain, in order
    attempts,       \* liquidateAndRedeem invocations so far
    routes,         \* what jupiter.computeRoutes returned to this attempt
    \* ---- processObligation (one obligation pipeline) ----
    ppc,            \* position inside processObligation
    evaluation,     \* the last result of calculateRefreshedObligation
    evals,          \* evaluations made so far
    selectedBorrow, \* index into evaluation.borrows, 0 when undefined
    selectedDeposit,\* index into evaluation.deposits, 0 when undefined
    passCalls,      \* liquidateAndRedeem invocations since the last evaluation
    profit,         \* profit of this pass's liquidation, in 10^-6 USDC
    swapped,        \* amount this pass handed to swap() in swapProfitToSol, 0: none
    fetchedAfter,   \* TRUE when currentObligation was fetched after the last liquidation
    initialHealth,  \* <<borrowedValue, unhealthyBorrowValue>> of the obligation argument (observer)
    totalLiquidations,
    failedLiquidations,
    \* ---- RateLimiter and JitoConnection (shared by the pipelines) ----
    now,            \* Date.now(), in clock ticks of TickMs milliseconds
    clockSteps,     \* advances of the clock so far
    rateLimiter,    \* requestQueue, dailyRequests, monthlyRequests, lastReset
    retryCount,     \* JitoConnection.retryCount, shared by every call
    call,           \* per caller: the execution-client call it has in flight
    recent,         \* admission times of the last second (observer)
    admitted,       \* admissions by checkRateLimit so far (observer)
    \* ---- the relay as one pipeline's makeJitoRequest calls see it ----
    relayPc,        \* "idle" | "request" | "backoff"
    observed,       \* relay requests answered so far (observer)
    failures,       \* relay requests answered with an error so far (observer)
    \* ---- waitForBundle (one call) ----
    wpc,            \* position inside waitForBundle
    elapsed,        \* Date.now() - startTime in seconds, kept up to one past the timeout
    polls,          \* statuses getBundleStatus has returned so far
    pendingPolls,   \* those of them that were Pending
    lastStatus,     \* the last status returned, "none" before the first
    outcome,        \* "none", "returned", or the message of the error thrown
    \* ---- getLatestBlockhash (one call) ----
    bpc,            \* position inside getLatestBlockhash
    regularAnswer,  \* what the regular endpoint answers to this call
    relayAnswer,    \* what the relay endpoint answers to this call
    blockhashResult,\* what the call returned or threw
    \* ---- getTokenOracleData (one reserve, one call at a time) ----
    opc,            \* position inside getTokenOracleData
    oclock,         \* Date.now(), in ticks of OracleTickMs
    reserve,        \* the reserve: its symbol and which oracles it names
    priceCache,     \* the entry of priceCache under this reserve's key
    pythAnswer,     \* what the Pyth account held when this call read it
    switchboardAnswer, \* the price the Switchboard attempts of this call ended with
    priceData,      \* the locals priceData, confidence and source of the call
    confidence,
    source,
    consulted,      \* the sources this call has consulted, in order (observer)
    oracleResult,   \* what the call returned
    \* ---- getTokensOracleData (one call over the reserves of a market) ----
    tpc,            \* position inside getTokensOracleData
    promises,       \* per reserve: the promise of its getTokenOracleData call
    tokensOracle,   \* what the call returned, <<>> before
    \* ---- runLiquidator (the orchestrator) ----
    mpc,            \* position inside runLiquidator
    epoch,          \* the loop variable epoch
    marketIdx,      \* index into markets of the market of this pass
    consecutiveErrors,
    throttle,       \* BOT_CONFIG.THROTTLE in milliseconds, 0 when undefined
    isHealthy,      \* the last result of checkHealth
    allObligations, \* the obligations fetched by this pass
    batchStart,     \* the loop variable i of the batch loop
    tasks,          \* per obligation of the batch: the promise given to Promise.all
    processed,      \* processObligation calls started by this pass
    rejected,       \* those of them that rejected (observer)
    timer,          \* milliseconds of the setTimeout awaited, 0 when none
    attemptLog,     \* the markets of the passes started so far (observer)
    streak,         \* passes that threw since the last that completed (observer)
    unhealthySeen,  \* TRUE once a pass has failed its health check (observer)
    \* ---- sortBorrows and comparePubkeys (one call at a time) ----
    spc,            \* "idle", or "sorted" when sortBorrows has returned
    borrowsArg,     \* the argument of the sortBorrows call
    sortedBorrows,  \* what the call returned
    compared        \* the last comparePubkeys call: its arguments and result

composeVars == <<lpc, obligation, marketReserves, ixs, simulation, sendCalls,
                 chainTxs, attempts, routes>>

obligationVars == <<ppc, evaluation, evals, selectedBorrow, selectedDeposit,
                    passCalls, profit, swapped, fetchedAfter, initialHealth,
                    totalLiquidations, failedLiquidations>>

jitoVars == <<now, clockSteps, rateLimiter, retryCount, call, recent, admitted>>

relayVars == <<relayPc, observed, failures>>

\* The variables of the smaller machines.
waitVars == <<wpc, elapsed, polls, pendingPolls, lastStatus, outcome>>

blockhashVars == <<bpc, regularAnswer, relayAnswer, blockhashResult>>

oracleVars == <<opc, oclock, reserve, priceCache, pythAnswer,
                switchboardAnswer, priceData, confidence, source, consulted,
                oracleResult>>

pricesVars == <<tpc, promises, tokensOracle>>

loopVars == <<mpc, epoch, marketIdx, consecutiveErrors, throttle, isHealthy,
              allObligations, batchStart, tasks, processed, rejected, timer,
              attemptLog, streak, unhealthySeen>>

sortVars == <<spc, borrowsArg, sortedBorrows, compared>>

restVars == <<relayVars, waitVars, blockhashVars, oracleVars, pricesVars,
              loopVars, sortVars>>

vars == <<composeVars, obligationVars, jitoVars, restVars>>

notCompose == <<obligationVars, jitoVars, restVars>>
notObligation == <<composeVars, jitoVars, restVars>>
notJito == <<composeVars, obligationVars, restVars>>
mainVars == <<composeVars, obligationVars, jitoVars>>
notRelay == <<mainVars, waitVars, blockhashVars, oracleVars, pricesVars,
              loopVars, sortVars>>
notWait == <<mainVars, relayVars, blockhashVars, oracleVars, pricesVars,
             loopVars, sortVars>>
notBlockhash == <<mainVars, relayVars, waitVars, oracleVars, pricesVars,
                  loopVars, sortVars>>
notOracle == <<mainVars, relayVars, waitVars, blockhashVars, pricesVars,
               loopVars, sortVars>>
notPrices == <<mainVars, relayVars, waitVars, blockhashVars, oracleVars,
               loopVars, sortVars>>
notLoop == <<mainVars, relayVars, waitVars, blockhashVars, oracleVars,
             pricesVars, sortVars>>
notSort == <<mainVars, relayVars, waitVars, blockhashVars, oracleVars,
             pricesVars, loopVars>>

(***************************************************************************)
(* Bounds of the model.                                                    *)
(***************************************************************************)
MaxAttempts == 2
MaxReserveList == 2
NumReserves == 3
MaxDeposits == 2
MaxBorrows == 2
MaxEvals == 2
MaxAdmissions == 6
MaxRelayCalls == 101
MaxBlockHeight == 4
MaxOracleTicks == 13
MaxClockSteps == 4
MaxMarketReserves == 3
NumMarkets == 2
MaxEpochs == 3
MaxObligations == 3
MaxSortLen == 3
\* The RateLimiter's constructor arguments (jito.ts:44-56), scaled down.
burstRequests == 2
dailyLimit == 4
monthlyLimit == 5

(***************************************************************************)
(* Constants of the program.                                               *)
(***************************************************************************)
PubkeyBytes == 32
MAX_RETRIES == 3
MIN_USDC_BUFFER == 1
MicroPerUsdc == 1000000
maxRetries == 3
RETRY_DELAY_MS == 1000
COOLDOWN_MS == 5000
WINDOW_MS == 1000
DAILY_DELAY_MS == 60000
MONTHLY_DELAY_MS == 300000
DAY_MS == 86400000
MONTH_DAYS == 30
LIQUIDATION_BATCH_SIZE == 2
\* ERROR_THRESHOLD: 0.1, in percent
ERROR_THRESHOLD_PERCENT == 10
TRANSACTION_TIMEOUT_MS == 60000
RPC_TIMEOUT_MS == 30000
POLL_INTERVAL_MS == 1000
MAX_BUNDLE_TRANSACTIONS == 5
\* the validity buffer of the older getLatestBlockhash
BLOCKHASH_BUFFER_SLOTS == 150
CACHE_TTL_MS == 10000
STALE_PRICE_THRESHOLD_MS == 60000
REQUIRED_CONFIDENCE_BPS == 100
BPS_SCALE == 10000
MAX_CONSECUTIVE_ERRORS == 5
ERROR_COOLDOWN_MS == 5000

\* The clock of the model ticks once per rate-limit window.
TickMs == WINDOW_MS

\* Profits a liquidation may measure, in 10^-6 USDC.
Profits == {0, MicroPerUsdc, MicroPerUsdc + 1, 2 * MicroPerUsdc}

Reserves == 1..NumReserves

\* Sequences over S of length at most n.
SeqUpTo(S, n) == UNION {[1..k -> S] : k \in 0..n}

RECURSIVE Uniq(_)
\* [...new Set(list)]: the distinct elements in first-occurrence order.
Uniq(s) ==
    IF s = <<>> THEN <<>>
    ELSE LET rest == Uniq(SubSeq(s, 1, Len(s) - 1))
             last == s[Len(s)]
         IN  IF \E i \in 1..Len(rest) : rest[i] = last THEN rest
             ELSE Append(rest, last)

(***************************************************************************)
(* liquidateAndRedeem: src/src/liquidate.ts:273-480.                        *)
(***************************************************************************)
Ix(op, arg) == [op |-> op, arg |-> arg]

\* flashLoan.ts:19-53: the borrow instruction and the repay instruction, which
\* embeds the index of the borrow instruction.
createFlashLoanInstructions ==
    [borrowInstruction |-> Ix("flashBorrow", 0),
     repayInstruction  |-> Ix("flashRepay", 0)]

\* The reserve addresses without the Set: one entry per deposit and borrow.
uniqReserveAddressesKeepAll ==
    obligation.deposits \o obligation.borrows
\* liquidate.ts:286-288
uniqReserveAddresses ==
    Uniq(obligation.deposits \o obligation.borrows)

\* liquidate.ts:300-313: one refreshReserve instruction per distinct reserve
RefreshReserveIxs ==
    [i \in 1..Len(uniqReserveAddresses) |->
        Ix("refreshReserve", uniqReserveAddresses[i])]

Reject ==
    lpc' = "rejected"

\* The local routes before jupiter.computeRoutes has answered.
NoRoutes == [computed |-> FALSE, routesInfos |-> <<>>]

\* What jupiter.computeRoutes may answer: no route, or routes of which the
\* first is taken.
RouteAnswers == {<<>>, <<"route">>}

ComposeInit ==
    /\ lpc = "start"
    /\ obligation \in [deposits : SeqUpTo(Reserves, MaxReserveList) \ {<<>>},
                       borrows  : SeqUpTo(Reserves, MaxReserveList) \ {<<>>}]
    /\ marketReserves \in {Reserves, Reserves \ {NumReserves}}
    /\ ixs = <<>>
    /\ simulation = "none"
    /\ sendCalls = 0
    /\ chainTxs = <<>>
    /\ attempts = 1
    /\ routes = NoRoutes

\* The composer at rest, for the specifications of the other machines.
ComposeIdle ==
    /\ lpc = "start"
    /\ obligation = [deposits |-> <<1>>, borrows |-> <<2>>]
    /\ marketReserves = Reserves
    /\ ixs = <<>>
    /\ simulation = "none"
    /\ sendCalls = 0
    /\ chainTxs = <<>>
    /\ attempts = 1
    /\ routes = NoRoutes

\* liquidate.ts:291-297: the initial balance of the repay-token account
LR_InitialBalance ==
    /\ lpc = "start"
    /\ \E ok \in BOOLEAN :
          IF ok THEN lpc' = "refresh" ELSE Reject
    /\ UNCHANGED notCompose
    /\ UNCHANGED <<obligation, marketReserves, ixs, simulation, sendCalls,
                   chainTxs, attempts, routes>>

\* liquidate.ts:299-336: refresh instructions, or a throw for an unknown reserve
LR_Refresh ==
    /\ lpc = "refresh"
    /\ IF \A i \in 1..Len(uniqReserveAddresses) :
             uniqReserveAddresses[i] \in marketReserves
       THEN /\ ixs' = RefreshReserveIxs \o <<Ix("refreshObligation", 0)>>
            /\ lpc' = "collateralAccount"
       ELSE /\ Reject
            /\ \E n \in 0..Len(uniqReserveAddresses) - 1 :
                  /\ \A i \in 1..n : uniqReserveAddresses[i] \in marketReserves
                  /\ uniqReserveAddresses[n + 1] \notin marketReserves
                  /\ ixs' = SubSeq(RefreshReserveIxs, 1, n)
    /\ UNCHANGED notCompose
    /\ UNCHANGED <<obligation, marketReserves, simulation, sendCalls,
                   chainTxs, attempts, routes>>

\* liquidate.ts:338-353 and 355-370: a token account is created when absent
LR_TokenAccount(at, next, what) ==
    /\ lpc = at
    /\ \/ \E exists \in BOOLEAN :
            /\ ixs' = IF exists THEN ixs
                      ELSE Append(ixs, Ix("createAccount", what))
            /\ lpc' = next
       \/ Reject /\ UNCHANGED ixs
    /\ UNCHANGED notCompose
    /\ UNCHANGED <<obligation, marketReserves, simulation, sendCalls,
                   chainTxs, attempts, routes>>

LR_CollateralAccount ==
    LR_TokenAccount("collateralAccount", "liquidityAccount", 1)

LR_LiquidityAccount ==
    LR_TokenAccount("liquidityAccount", "flashLoan", 2)

\* liquidate.ts:372-405: flash-borrow, then liquidate-and-redeem
LR_FlashLoan ==
    /\ lpc = "flashLoan"
    /\ ixs' = ixs \o <<createFlashLoanInstructions.borrowInstruction,
                       Ix("liquidateAndRedeem", 0)>>
    /\ lpc' = "computeRoutes"
    /\ UNCHANGED notCompose
    /\ UNCHANGED <<obligation, marketReserves, simulation, sendCalls,
                   chainTxs, attempts, routes>>

\* liquidate.ts:415: routes.routesInfos.length === 0
NoRouteFoundNever(routesInfos) == FALSE
NoRouteFound(routesInfos) == Len(routesInfos) = 0

\* liquidate.ts:407-417: no route rejects the attempt
LR_ComputeRoutes ==
    /\ lpc = "computeRoutes"
    /\ \E routesInfos \in RouteAnswers :
          /\ routes' = [computed |-> TRUE, routesInfos |-> routesInfos]
          /\ IF NoRouteFound(routesInfos) THEN Reject ELSE lpc' = "swap"
    /\ UNCHANGED notCompose
    /\ UNCHANGED <<obligation, marketReserves, ixs, simulation, sendCalls,
                   chainTxs, attempts>>

\* liquidate.ts:419-431: jupiter.exchange(...).execute() sends the swap as a
\* transaction of its own; then the repay instruction is added.
LR_Swap ==
    /\ lpc = "swap"
    /\ \E swapOk \in BOOLEAN :
          IF swapOk
          THEN /\ chainTxs' = Append(chainTxs, <<Ix("swap", 0)>>)
               /\ ixs' = Append(ixs, createFlashLoanInstructions.repayInstruction)
               /\ lpc' = "blockhash"
          ELSE Reject /\ UNCHANGED <<chainTxs, ixs>>
    /\ UNCHANGED notCompose
    /\ UNCHANGED <<obligation, marketReserves, simulation, sendCalls, attempts, routes>>

\* liquidate.ts:433-437
LR_Blockhash ==
    /\ lpc = "blockhash"
    /\ \E ok \in BOOLEAN :
          IF ok THEN lpc' = "simulate" ELSE Reject
    /\ UNCHANGED notCompose
    /\ UNCHANGED <<obligation, marketReserves, ixs, simulation, sendCalls,
                   chainTxs, attempts, routes>>

\* liquidate.ts:441-443: where the attempt goes after the simulation
AfterSimulationNoCheck(err) == "send"
AfterSimulation(err) == IF err THEN "rejected" ELSE "send"

\* liquidate.ts:439-443
LR_Simulate ==
    /\ lpc = "simulate"
    /\ \E err \in BOOLEAN :
          /\ simulation' = IF err THEN "err" ELSE "ok"
          /\ lpc' = AfterSimulation(err)
    /\ UNCHANGED notCompose
    /\ UNCHANGED <<obligation, marketReserves, ixs, sendCalls, chainTxs,
                   attempts, routes>>

\* liquidate.ts:445-448
LR_Send ==
    /\ lpc = "send"
    /\ sendCalls' = sendCalls + 1
    /\ \E ok \in BOOLEAN :
          IF ok
          THEN /\ chainTxs' = Append(chainTxs, ixs)
               /\ lpc' = "confirm"
          ELSE Reject /\ UNCHANGED chainTxs
    /\ UNCHANGED notCompose
    /\ UNCHANGED <<obligation, marketReserves, ixs, simulation, attempts, routes>>

\* liquidate.ts:450-468
LR_Confirm ==
    /\ lpc = "confirm"
    /\ \E ok \in BOOLEAN :
          IF ok THEN lpc' = "resolved" ELSE Reject
    /\ UNCHANGED notCompose
    /\ UNCHANGED <<obligation, marketReserves, ixs, simulation, sendCalls,
                   chainTxs, attempts, routes>>

\* processObligation.ts:93-113: pRetry invokes liquidateAndRedeem again
LR_Retry ==
    /\ lpc = "rejected"
    /\ attempts < MaxAttempts
    /\ attempts' = attempts + 1
    /\ lpc' = "start"
    /\ ixs' = <<>>
    /\ simulation' = "none"
    /\ sendCalls' = 0
    /\ chainTxs' = <<>>
    /\ routes' = NoRoutes
    /\ UNCHANGED notCompose
    /\ UNCHANGED <<obligation, marketReserves>>

ComposeStep ==
    \/ LR_InitialBalance
    \/ LR_Refresh
    \/ LR_CollateralAccount
    \/ LR_LiquidityAccount
    \/ LR_FlashLoan
    \/ LR_ComputeRoutes
    \/ LR_Swap
    \/ LR_Blockhash
    \/ LR_Simulate
    \/ LR_Send
    \/ LR_Confirm
    \/ LR_Retry


(***************************************************************************)
(* processObligation: src/src/libs/processObligation.ts:13-155.            *)
(***************************************************************************)

\* processObligation.ts:53: borrowedValue.isLessThanOrEqualTo(unhealthyBorrowValue)
HealthyStrict(borrowedValue, unhealthyBorrowValue) ==
    borrowedValue < unhealthyBorrowValue
HealthySwapped(borrowedValue, unhealthyBorrowValue) ==
    unhealthyBorrowValue <= borrowedValue
Healthy(borrowedValue, unhealthyBorrowValue) ==
    borrowedValue <= unhealthyBorrowValue

\* processObligation.ts:68: borrows[0], 0 standing for undefined
SelectBorrow(borrows) ==
    IF Len(borrows) = 0 THEN 0 ELSE 1

RECURSIVE SelectDepositLast(_, _)
SelectDepositLast(deposits, n) ==
    IF n = 0 THEN 0
    ELSE LET sel == SelectDepositLast(deposits, n - 1)
         IN  IF sel = 0 \/ deposits[n].marketValue >= deposits[sel].marketValue
             THEN n ELSE sel

RECURSIVE SelectDeposit(_, _)
\* processObligation.ts:71-76: the forEach over the first n deposits
SelectDeposit(deposits, n) ==
    IF n = 0 THEN 0
    ELSE LET sel == SelectDeposit(deposits, n - 1)
         IN  IF sel = 0 \/ deposits[n].marketValue > deposits[sel].marketValue
             THEN n ELSE sel

\* The reserve addresses the model draws from, and the 32 bytes of each
\* (PublicKey.toBytes): "lo" and "hi" differ in the last byte only, "top"
\* is larger in the first byte and smaller in the last.
Pubkeys == {"lo", "hi", "top"}

toBytes(key) ==
    [i \in 1..PubkeyBytes |->
        CASE i = 1 -> (IF key = "top" THEN 200 ELSE 1)
          [] i = PubkeyBytes -> (IF key = "hi" THEN 255 ELSE 0)
          [] OTHER -> 7]

\* config.ts:586-601: byte-wise comparison of two 32-byte addresses
comparePubkeys(a, b) ==
    LET aBytes == toBytes(a)
        bBytes == toBytes(b)
    IN  IF \A i \in 1..PubkeyBytes : aBytes[i] = bBytes[i] THEN 0
        ELSE LET d == CHOOSE i \in 1..PubkeyBytes :
                         /\ aBytes[i] # bBytes[i]
                         /\ \A j \in 1..(i - 1) : aBytes[j] = bBytes[j]
             IN  IF aBytes[d] < bBytes[d] THEN -1 ELSE 1

\* Market values and borrow weights (addedBorrowWeightBPS) of the snapshots
\* drawn.
Values == {0, 1, 2}
Weights == {0, 1}

\* Borrowed values and unhealthy-borrow values of the snapshots drawn.
BorrowValues == {40, 80, 85}

Deposits == SeqUpTo([marketValue : Values], MaxDeposits)

\* An obligation holds at most one borrow per reserve.
Borrows ==
    {b \in SeqUpTo([addedBorrowWeightBPS : Weights, borrowReserve : Pubkeys],
                   MaxBorrows) :
        \A i, j \in 1..Len(b) : i # j => b[i].borrowReserve # b[j].borrowReserve}

\* What calculateRefreshedObligation may return for a snapshot.
Evaluations ==
    [borrowedValue : BorrowValues, unhealthyBorrowValue : BorrowValues,
     deposits : Deposits, borrows : Borrows]

\* No evaluation yet in this loop iteration.
NoEvaluation ==
    [borrowedValue |-> 0, unhealthyBorrowValue |-> 0,
     deposits |-> <<>>, borrows |-> <<>>]

ObligationInit ==
    /\ ppc = "evaluate"
    /\ evaluation = NoEvaluation
    /\ evals = 0
    /\ selectedBorrow = 0
    /\ selectedDeposit = 0
    /\ passCalls = 0
    /\ profit = 0
    /\ swapped = 0
    /\ fetchedAfter = TRUE
    /\ initialHealth = <<0, 0>>
    /\ totalLiquidations = 0
    /\ failedLiquidations = 0

\* processObligation.ts:78-83: a missing borrow or deposit ends the loop
AfterSelectionThrows(borrow, deposit) ==
    IF borrow = 0 \/ deposit = 0 THEN "rejected" ELSE "liquidate"
AfterSelection(borrow, deposit) ==
    IF borrow = 0 \/ deposit = 0 THEN "done" ELSE "liquidate"

\* processObligation.ts:148-154: the catch block counts what the loop threw
Caught(pc) == IF pc = "rejected" THEN 1 ELSE 0

\* processObligation.ts:30-83: evaluate, stop when healthy, select the tokens
PO_EvaluateWith(onRecord) ==
    /\ ppc = "evaluate"
    /\ evals < MaxEvals
    /\ \E e \in Evaluations :
          /\ evaluation' = e
          /\ initialHealth' =
                IF onRecord /\ evals = 0
                THEN <<e.borrowedValue, e.unhealthyBorrowValue>>
                ELSE initialHealth
          /\ IF Healthy(e.borrowedValue, e.unhealthyBorrowValue)
             THEN /\ ppc' = "done"
                  /\ UNCHANGED <<selectedBorrow, selectedDeposit>>
             ELSE /\ selectedBorrow' = SelectBorrow(e.borrows)
                  /\ selectedDeposit' = SelectDeposit(e.deposits, Len(e.deposits))
                  /\ ppc' = AfterSelection(selectedBorrow', selectedDeposit')
    /\ evals' = evals + 1
    /\ failedLiquidations' = failedLiquidations + Caught(ppc')
    /\ UNCHANGED <<passCalls, profit, swapped, fetchedAfter, totalLiquidations>>
    /\ UNCHANGED notObligation

PO_Evaluate == PO_EvaluateWith(FALSE)

\* The same, with the evaluation of the obligation argument kept on record.
PO_EvaluateObserved == PO_EvaluateWith(TRUE)

\* processObligation.ts:93-113: pRetry with retries: MAX_RETRIES invokes the
\* function again after a failed attempt while the attempt number, counted
\* from 1, has not passed the number of retries.
pRetryAgainOffByOne(attemptNumber, retries) == attemptNumber <= retries + 1
pRetryAgain(attemptNumber, retries) == attemptNumber <= retries

\* processObligation.ts:125: profit > MIN_USDC_BUFFER, the profit in 10^-6 USDC
WorthConvertingAtBuffer(usdcMicro) == usdcMicro >= MIN_USDC_BUFFER * MicroPerUsdc
WorthConverting(usdcMicro) == usdcMicro > MIN_USDC_BUFFER * MicroPerUsdc

\* processObligation.ts:93-122 and 148-154: one liquidateAndRedeem invocation
\* under pRetry; the last failure reaches the catch block.
PO_Liquidate ==
    /\ ppc = "liquidate"
    /\ passCalls' = passCalls + 1
    /\ \/ \E p \in Profits :
            /\ profit' = p
            /\ totalLiquidations' = totalLiquidations + 1
            /\ fetchedAfter' = FALSE
            /\ ppc' = IF WorthConverting(p) THEN "convert" ELSE "refetch"
            /\ UNCHANGED failedLiquidations
       \/ /\ IF pRetryAgain(passCalls', MAX_RETRIES)
             THEN UNCHANGED <<ppc, failedLiquidations>>
             ELSE /\ ppc' = "rejected"
                  /\ failedLiquidations' = failedLiquidations + 1
          /\ UNCHANGED <<profit, totalLiquidations, fetchedAfter>>
    /\ UNCHANGED <<evaluation, evals, selectedBorrow, selectedDeposit, swapped,
                   initialHealth>>
    /\ UNCHANGED notObligation

\* swapProfitToSol.ts:14: Math.floor((usdcAmount - MIN_USDC_BUFFER) * 1e6)
SwapAmount(usdcMicro) ==
    usdcMicro - MIN_USDC_BUFFER * MicroPerUsdc

\* processObligation.ts:124-128 with swapProfitToSol.ts:13-42
PO_Convert ==
    /\ ppc = "convert"
    /\ IF SwapAmount(profit) <= 0
       THEN /\ ppc' = "refetch"
            /\ UNCHANGED <<swapped, failedLiquidations>>
       ELSE /\ swapped' = SwapAmount(profit)
            /\ \E ok \in BOOLEAN :
                  IF ok THEN /\ ppc' = "refetch"
                             /\ UNCHANGED failedLiquidations
                  ELSE /\ ppc' = "rejected"
                       /\ failedLiquidations' = failedLiquidations + 1
    /\ UNCHANGED <<evaluation, evals, selectedBorrow, selectedDeposit, passCalls,
                   profit, fetchedAfter, initialHealth, totalLiquidations>>
    /\ UNCHANGED notObligation

\* processObligation.ts:131-146: getAccountInfo threw or returned null,
\* parseObligation returned nothing, or the account was parsed
RefetchResults == {"threw", "null", "unparsed", "parsed"}

AfterRefetchKeepsSnapshot(r) ==
    CASE r = "threw" -> "rejected"
      [] r = "parsed" -> "evaluate"
      [] r = "null" -> "evaluate"
      [] OTHER -> "done"

\* processObligation.ts:135-145: where the loop goes after the re-fetch
AfterRefetch(r) ==
    CASE r = "threw" -> "rejected"
      [] r = "parsed" -> "evaluate"
      [] OTHER -> "done"

\* processObligation.ts:130-146 and 148-154: re-fetch and re-parse
PO_Refetch ==
    /\ ppc = "refetch"
    /\ \E r \in RefetchResults :
          /\ ppc' = AfterRefetch(r)
          /\ failedLiquidations' =
                IF r = "threw" THEN failedLiquidations + 1 ELSE failedLiquidations
          /\ fetchedAfter' = (r = "parsed")
          \* the names bound inside the loop body end with the iteration
          /\ IF ppc' = "evaluate"
             THEN /\ evaluation' = NoEvaluation
                  /\ selectedBorrow' = 0
                  /\ selectedDeposit' = 0
                  /\ passCalls' = 0
                  /\ profit' = 0
                  /\ swapped' = 0
             ELSE UNCHANGED <<evaluation, selectedBorrow, selectedDeposit,
                              passCalls, profit, swapped>>
    /\ UNCHANGED <<evals, initialHealth, totalLiquidations>>
    /\ UNCHANGED notObligation

NextObligation ==
    \/ PO_Evaluate
    \/ PO_Liquidate
    \/ PO_Convert
    \/ PO_Refetch

NextObligationObserved ==
    \/ PO_EvaluateObserved
    \/ PO_Liquidate
    \/ PO_Convert
    \/ PO_Refetch

(***************************************************************************)
(* RateLimiter and JitoConnection: src/src/libs/jito.ts:26-356.            *)
(*                                                                         *)
(* The clock counts ticks of TickMs milliseconds.  One action is one run   *)
(* of the event loop: the code between two suspensions (a timer, an HTTP   *)
(* response) of the call that runs.  A due timer fires before the clock    *)
(* moves on, unless the process was stalled until the end of the day.      *)
(***************************************************************************)
Callers == 1..LIQUIDATION_BATCH_SIZE

\* A duration of the code, in clock ticks.
Ticks(ms) == ms \div TickMs

DayTicks == Ticks(DAY_MS)
MonthTicks == MONTH_DAYS * DayTicks

RECURSIVE Pow2(_)
\* Math.pow(2, n) for n >= 0
Pow2(n) == IF n <= 0 THEN 1 ELSE 2 * Pow2(n - 1)

resetCountersNever(rl, t) == rl
\* jito.ts:58-72
resetCounters(rl, t) ==
    LET d == IF t - rl.lastReset.daily >= DayTicks
             THEN [rl EXCEPT !.dailyRequests = 0, !.lastReset.daily = t]
             ELSE rl
    IN  IF t - d.lastReset.monthly >= MonthTicks
        THEN [d EXCEPT !.monthlyRequests = 0, !.lastReset.monthly = t]
        ELSE d

FilterQueueKeepAll(requestQueue, t) == requestQueue
\* jito.ts:103: requests older than one second leave the queue
FilterQueue(requestQueue, t) ==
    SelectSeq(requestQueue, LAMBDA timestamp : t - timestamp < Ticks(WINDOW_MS))

BurstReachedOffByOne(requestQueue) == Len(requestQueue) > burstRequests
\* jito.ts:106
BurstReached(requestQueue) == Len(requestQueue) >= burstRequests

\* jito.ts:74-79: the cooldown of each kind of limit
LimitDelay(type) ==
    CASE type = "burst" -> Ticks(COOLDOWN_MS)
      [] type = "daily" -> Ticks(DAILY_DELAY_MS)
      [] type = "monthly" -> Ticks(MONTHLY_DELAY_MS)

\* jito.ts:116-126: adaptive throttling after an admission
ThrottleDelay(rl) ==
    LET over(percent) ==
            \/ rl.dailyRequests * 100 > percent * dailyLimit
            \/ rl.monthlyRequests * 100 > percent * monthlyLimit
    IN  IF over(90) THEN Ticks(COOLDOWN_MS * 2)
        ELSE IF over(75) THEN Ticks(COOLDOWN_MS)
        ELSE 0

\* jito.ts:85-127: one run of checkRateLimit at time t, up to its first
\* suspension: the limiter it leaves, its verdict, and the sleep that follows.
checkRateLimit(rl, t) ==
    LET r == resetCounters(rl, t)
        q == FilterQueue(r.requestQueue, t)
        counted == [r EXCEPT !.requestQueue = Append(q, t),
                             !.dailyRequests = @ + 1,
                             !.monthlyRequests = @ + 1]
    IN  IF r.monthlyRequests >= monthlyLimit
        THEN [rl |-> r, verdict |-> "monthly", delay |-> LimitDelay("monthly")]
        ELSE IF r.dailyRequests >= dailyLimit
        THEN [rl |-> r, verdict |-> "daily", delay |-> LimitDelay("daily")]
        ELSE IF BurstReached(q)
        THEN [rl |-> [r EXCEPT !.requestQueue = q], verdict |-> "burst",
              delay |-> LimitDelay("burst")]
        ELSE [rl |-> counted, verdict |-> "admitted",
              delay |-> ThrottleDelay(counted)]

\* A caller with no call in flight.
NoCall ==
    [kind |-> "none", pc |-> "idle", wakeAt |-> 0, retries |-> 0,
     blocked |-> "none", wellFormed |-> TRUE, size |-> 0]

\* Interchangeable pipelines: a new call takes the lowest free caller slot.
FreeSlot(c) == call[c].pc = "idle" /\ \A d \in Callers : d < c => call[d].pc # "idle"

JitoInit ==
    /\ now = 0
    /\ clockSteps = 0
    /\ rateLimiter = [requestQueue |-> <<>>, dailyRequests |-> 0,
                      monthlyRequests |-> 0,
                      lastReset |-> [daily |-> 0, monthly |-> 0]]
    /\ retryCount = 0
    /\ call = [c \in Callers |-> NoCall]
    /\ recent = <<>>
    /\ admitted = 0

AfterCheckNoWait(ok, delay, inner) ==
    IF ok /\ delay > 0 THEN (IF inner THEN "throttle" ELSE "preThrottle")
    ELSE (IF inner THEN "request" ELSE "enter")
\* jito.ts:91-109 and 116-126: where the caller of checkRateLimit is after one
\* run of it: asleep before the next run when a cap is reached, asleep in the
\* adaptive throttle after the admission, or past the await of the check
AfterCheck(ok, delay, inner) ==
    IF ~ok THEN (IF inner THEN "rateWait" ELSE "preWait")
    ELSE IF delay > 0 THEN (IF inner THEN "throttle" ELSE "preThrottle")
    ELSE (IF inner THEN "request" ELSE "enter")

\* Caller c, whose call record becomes rec, runs checkRateLimit, either in
\* sendRawTransaction (jito.ts:334, inner = FALSE) or in makeJitoRequest
\* (jito.ts:182, inner = TRUE, the HTTP request following at jito.ts:190).
RunCheck(c, rec, inner) ==
    LET res == checkRateLimit(rateLimiter, now)
        ok == res.verdict = "admitted"
        pc == AfterCheck(ok, res.delay, inner)
    IN  /\ ok => admitted < MaxAdmissions
        /\ rateLimiter' = res.rl
        /\ admitted' = IF ok THEN admitted + 1 ELSE admitted
        /\ recent' = IF ok THEN Append(recent, now) ELSE recent
        /\ call' = [call EXCEPT ![c] =
                      [rec EXCEPT !.pc = pc,
                                  !.wakeAt = IF ok /\ res.delay = 0 THEN 0
                                             ELSE now + res.delay,
                                  !.blocked = IF ok THEN "none" ELSE res.verdict]]

\* jito.ts:271-295: sendBundle or getBundleStatus calls makeJitoRequest
MakeJitoRequest(c) ==
    /\ FreeSlot(c)
    /\ RunCheck(c, [NoCall EXCEPT !.kind = "request"], TRUE)
    /\ UNCHANGED <<now, clockSteps, retryCount>>
    /\ UNCHANGED notJito

\* jito.ts:329-334: sendRawTransaction starts with a rate-limit check of its
\* own; the bytes it is given may or may not deserialize to a transaction
SendRawTransaction(c) ==
    /\ FreeSlot(c)
    /\ \E wellFormed \in BOOLEAN :
          RunCheck(c, [NoCall EXCEPT !.kind = "sendRaw",
                                     !.wellFormed = wellFormed], FALSE)
    /\ UNCHANGED <<now, clockSteps, retryCount>>
    /\ UNCHANGED notJito

\* jito.ts:92-93, 98-99, 107-108: after the cooldown checkRateLimit runs again
LimitWakes(c) ==
    /\ call[c].pc \in {"rateWait", "preWait"}
    /\ now >= call[c].wakeAt
    /\ RunCheck(c, call[c], call[c].pc = "rateWait")
    /\ UNCHANGED <<now, clockSteps, retryCount>>
    /\ UNCHANGED notJito

\* jito.ts:121-125: the throttled call goes on
ThrottleWakes(c) ==
    /\ call[c].pc \in {"throttle", "preThrottle"}
    /\ now >= call[c].wakeAt
    /\ call' = [call EXCEPT ![c].pc = IF @ = "throttle" THEN "request" ELSE "enter",
                            ![c].wakeAt = 0]
    /\ UNCHANGED <<now, clockSteps, rateLimiter, retryCount, recent, admitted>>
    /\ UNCHANGED notJito

\* jito.ts:347-354: the catch block of sendRawTransaction, entered with the
\* retry counter at count
SendCatch(rec, count) ==
    IF count < maxRetries
    THEN [rec |-> [rec EXCEPT !.pc = "sendRetrySleep",
                              !.wakeAt = now + Ticks(RETRY_DELAY_MS)],
          retryCount |-> count + 1]
    ELSE [rec |-> [rec EXCEPT !.pc = "failed", !.wakeAt = 0],
          retryCount |-> count]

\* jito.ts:335-346: Transaction.from throws on bytes that are no transaction,
\* otherwise sendRawTransaction calls makeJitoRequest
SendEnters(c) ==
    /\ call[c].pc = "enter"
    /\ call[c].kind = "sendRaw"
    /\ IF call[c].wellFormed
       THEN /\ RunCheck(c, [call[c] EXCEPT !.retries = 0], TRUE)
            /\ UNCHANGED retryCount
       ELSE /\ call' = [call EXCEPT ![c] = SendCatch(call[c], retryCount).rec]
            /\ retryCount' = SendCatch(call[c], retryCount).retryCount
            /\ UNCHANGED <<rateLimiter, recent, admitted>>
    /\ UNCHANGED <<now, clockSteps>>
    /\ UNCHANGED notJito

\* jito.ts:226-229: the request error is thrown, the finally block resets the
\* counter, and a sendRawTransaction caller catches the rejection
Rethrow(rec) ==
    IF rec.kind = "sendRaw" THEN SendCatch(rec, 0)
    ELSE [rec |-> [rec EXCEPT !.pc = "failed", !.wakeAt = 0], retryCount |-> 0]

\* jito.ts:190-229: the HTTP response (or error) of a request arrives
Responds(c) ==
    /\ call[c].pc = "request"
    /\ \E success \in BOOLEAN :
          IF success
          THEN /\ call' = [call EXCEPT ![c].pc = "done"]
               /\ retryCount' = 0
          ELSE IF retryCount < maxRetries
          THEN LET delay == RETRY_DELAY_MS * Pow2((retryCount + 1) - 1)
               IN  /\ retryCount' = retryCount + 1
                   /\ call' = [call EXCEPT ![c].pc = "retrySleep",
                                           ![c].retries = @ + 1,
                                           ![c].wakeAt = now + Ticks(delay)]
          ELSE /\ call' = [call EXCEPT ![c] = Rethrow(call[c]).rec]
               /\ retryCount' = Rethrow(call[c]).retryCount
    /\ UNCHANGED <<now, clockSteps, rateLimiter, recent, admitted>>
    /\ UNCHANGED notJito

\* jito.ts:222-223 and 227-229: after the delay the request is made again by a
\* recursive call, which runs up to its first suspension; the finally block
\* of the returning frame then resets the counter.
RetryWakes(c) ==
    /\ call[c].pc = "retrySleep"
    /\ now >= call[c].wakeAt
    /\ RunCheck(c, call[c], TRUE)
    /\ retryCount' = 0
    /\ UNCHANGED <<now, clockSteps>>
    /\ UNCHANGED notJito

\* jito.ts:350-351: sendRawTransaction calls itself again
SendRetryWakes(c) ==
    /\ call[c].pc = "sendRetrySleep"
    /\ now >= call[c].wakeAt
    /\ RunCheck(c, call[c], FALSE)
    /\ UNCHANGED <<now, clockSteps, retryCount>>
    /\ UNCHANGED notJito

\* The caller's pipeline has taken the result and may make its next call.
Returns(c) ==
    /\ call[c].pc \in {"done", "failed"}
    /\ call' = [call EXCEPT ![c] = NoCall]
    /\ UNCHANGED <<now, clockSteps, rateLimiter, retryCount, recent, admitted>>
    /\ UNCHANGED notJito

\* The callers suspended on a setTimeout.
Sleeping ==
    {c \in Callers : call[c].pc \in {"rateWait", "preWait", "throttle",
                                      "preThrottle", "retrySleep",
                                      "sendRetrySleep"}}

\* Time passes: by one tick or up to the next timer once every due timer has
\* fired, or (the process having been stalled) up to the end of the limiter's day.
ClockAdvances ==
    /\ clockSteps < MaxClockSteps
    /\ \E d \in {1, rateLimiter.lastReset.daily + DayTicks - now}
                \cup {call[c].wakeAt - now : c \in Sleeping} :
          /\ d > 0
          /\ \/ now + d = rateLimiter.lastReset.daily + DayTicks
             \/ \A c \in Sleeping : now < call[c].wakeAt /\ now + d <= call[c].wakeAt
          /\ now' = now + d
    /\ clockSteps' = clockSteps + 1
    /\ recent' = SelectSeq(recent, LAMBDA t : now' - t < Ticks(WINDOW_MS))
    /\ UNCHANGED <<rateLimiter, retryCount, call, admitted>>
    /\ UNCHANGED notJito

NextJito ==
    \/ \E c \in Callers :
          \/ MakeJitoRequest(c)
          \/ SendRawTransaction(c)
          \/ SendEnters(c)
          \/ LimitWakes(c)
          \/ ThrottleWakes(c)
          \/ Responds(c)
          \/ RetryWakes(c)
          \/ SendRetryWakes(c)
          \/ Returns(c)
    \/ ClockAdvances

(***************************************************************************)
(* The rate limiter over day and month boundaries, driven by the calls     *)
(* that go to the regular endpoint (getBalance, getAccountInfo).           *)
(***************************************************************************)

\* jito.ts:251-254, 261-264: the call starts with a rate-limit check
GetBalance(c) ==
    /\ FreeSlot(c)
    /\ RunCheck(c, [NoCall EXCEPT !.kind = "regular"], FALSE)
    /\ UNCHANGED <<now, clockSteps, retryCount>>
    /\ UNCHANGED notJito

\* jito.ts:254-258, 264-268: the regular endpoint answers, or its error is
\* logged and thrown again
RegularResponds(c) ==
    /\ call[c].pc = "enter"
    /\ call[c].kind = "regular"
    /\ \E success \in BOOLEAN :
          call' = [call EXCEPT ![c].pc = IF success THEN "done" ELSE "failed"]
    /\ UNCHANGED <<now, clockSteps, rateLimiter, retryCount, recent, admitted>>
    /\ UNCHANGED notJito

\* The ends of the limiter's current day and month.
DayEnd == rateLimiter.lastReset.daily + DayTicks
MonthEnd == rateLimiter.lastReset.monthly + MonthTicks

\* Time passes as in ClockAdvances, or (the process having been stalled) up
\* to the end of the limiter's month.
ClockAdvancesFar ==
    /\ clockSteps < MaxClockSteps
    /\ \E d \in {1, DayEnd - now, MonthEnd - now}
                \cup {call[c].wakeAt - now : c \in Sleeping} :
          /\ d > 0
          /\ \/ now + d \in {DayEnd, MonthEnd}
             \/ \A c \in Sleeping : now < call[c].wakeAt /\ now + d <= call[c].wakeAt
          /\ now' = now + d
    /\ clockSteps' = clockSteps + 1
    /\ recent' = SelectSeq(recent, LAMBDA t : now' - t < Ticks(WINDOW_MS))
    /\ UNCHANGED <<rateLimiter, retryCount, call, admitted>>
    /\ UNCHANGED notJito

NextLimiter ==
    \/ \E c \in Callers :
          \/ GetBalance(c)
          \/ RegularResponds(c)
          \/ LimitWakes(c)
          \/ ThrottleWakes(c)
          \/ Returns(c)
    \/ ClockAdvancesFar

(***************************************************************************)
(* sendBundle: src/src/libs/jito.ts:271-286, over the rate limiter and the *)
(* retry counter of the connection.                                        *)
(***************************************************************************)

\* Bundle lengths on either side of the limit.
BundleSizes == {MAX_BUNDLE_TRANSACTIONS, MAX_BUNDLE_TRANSACTIONS + 1}

BundleTooLargeOffByOne(n) == n >= MAX_BUNDLE_TRANSACTIONS
\* jito.ts:272
BundleTooLarge(n) == n > MAX_BUNDLE_TRANSACTIONS

\* jito.ts:271-283: the length is tested first; a bundle that passes is
\* encoded and handed to makeJitoRequest, which starts with checkRateLimit
SendBundle(c) ==
    /\ FreeSlot(c)
    /\ \E n \in BundleSizes :
          IF BundleTooLarge(n)
          THEN /\ call' = [call EXCEPT ![c] =
                              [NoCall EXCEPT !.kind = "bundle", !.size = n,
                                             !.pc = "failed"]]
               /\ UNCHANGED <<rateLimiter, recent, admitted>>
          ELSE RunCheck(c, [NoCall EXCEPT !.kind = "bundle", !.size = n], TRUE)
    /\ UNCHANGED <<now, clockSteps, retryCount>>
    /\ UNCHANGED notJito

NextBundle ==
    \/ \E c \in Callers :
          \/ SendBundle(c)
          \/ LimitWakes(c)
          \/ ThrottleWakes(c)
          \/ Responds(c)
          \/ RetryWakes(c)
          \/ Returns(c)
    \/ ClockAdvances

(***************************************************************************)
(* The relay as the makeJitoRequest calls of one pipeline see it, with the *)
(* error statistics an observer keeps (src/src/libs/jito.ts:180-230).  The *)
(* rate limiter only delays a request and is left out here.                *)
(***************************************************************************)
RelayInit ==
    /\ relayPc = "idle"
    /\ observed = 0
    /\ failures = 0

\* jito.ts:181-204: after checkRateLimit the request is posted; nothing else
\* is consulted before it
RelayRequest ==
    /\ relayPc = "idle"
    /\ observed < MaxRelayCalls
    /\ relayPc' = "request"
    /\ UNCHANGED <<observed, failures>>
    /\ UNCHANGED notRelay

\* jito.ts:206-226: the result is returned, or the error is caught and the
\* call either sleeps before its retry or throws
RelayResponds ==
    /\ relayPc = "request"
    /\ observed' = observed + 1
    /\ \E success \in BOOLEAN, retry \in BOOLEAN :
          /\ failures' = IF success THEN failures ELSE failures + 1
          /\ relayPc' = IF ~success /\ retry THEN "backoff" ELSE "idle"
    /\ UNCHANGED notRelay

\* jito.ts:222-223: after the delay the request is made again
RelayRetries ==
    /\ relayPc = "backoff"
    /\ observed < MaxRelayCalls
    /\ relayPc' = "request"
    /\ UNCHANGED <<observed, failures>>
    /\ UNCHANGED notRelay

NextRelay == RelayRequest \/ RelayResponds \/ RelayRetries

(***************************************************************************)
(* waitForBundle: src/src/libs/jito.ts:297-322, with getBundleStatus       *)
(* (jito.ts:288-295) and the retries of makeJitoRequest under it.  Time is *)
(* Date.now() - startTime in seconds; past the timeout its value no longer *)
(* matters and is kept at one second past it.                              *)
(***************************************************************************)
Seconds(ms) == ms \div POLL_INTERVAL_MS
TimeoutSeconds == Seconds(TRANSACTION_TIMEOUT_MS)
After(t, d) == IF t + d > TimeoutSeconds THEN TimeoutSeconds + 1 ELSE t + d

\* What one getBundleStatuses request may bring: no entry for the bundle, a
\* status, or an error.
PollResults == {"null", "Pending", "Invalid", "Landed", "Failed", "error"}
\* Seconds a request may take, up to the timeout of the HTTP client.
Latencies == {0, Seconds(RPC_TIMEOUT_MS)}

IsLandedOrPending(status) == status \in {"Landed", "Pending"}
\* jito.ts:316
IsLanded(status) == status = "Landed"

IsFailedOrInvalid(status) == status \in {"Failed", "Invalid"}
IsFailedNever(status) == FALSE
\* jito.ts:312
IsFailed(status) == status = "Failed"

WaitInit ==
    /\ wpc = "idle"
    /\ elapsed = 0
    /\ polls = 0
    /\ pendingPolls = 0
    /\ lastStatus = "none"
    /\ outcome = "none"

\* jito.ts:297-298
WaitForBundle ==
    /\ wpc = "idle"
    /\ wpc' = "head"
    /\ UNCHANGED <<elapsed, polls, pendingPolls, lastStatus, outcome>>
    /\ UNCHANGED notWait

\* jito.ts:300-305: the deadline is looked at before each poll
LoopHead ==
    /\ wpc = "head"
    /\ IF elapsed > TimeoutSeconds
       THEN wpc' = "done" /\ outcome' = "Bundle confirmation timeout"
       ELSE wpc' = "request" /\ outcome' = outcome
    /\ UNCHANGED <<elapsed, polls, pendingPolls, lastStatus>>
    /\ UNCHANGED notWait

\* jito.ts:190-229 under getBundleStatus, then jito.ts:307-320: the request is
\* answered.  An error finds the shared retry counter at some value: below
\* maxRetries the request is made again after the backoff, otherwise the
\* error leaves waitForBundle.
PollRespondsWith(results) ==
    /\ wpc = "request"
    /\ \E result \in results, d \in Latencies, count \in 0..maxRetries :
          IF result = "error"
          THEN /\ IF count < maxRetries
                  THEN /\ wpc' = "backoff"
                       /\ elapsed' = After(elapsed,
                              d + Seconds(RETRY_DELAY_MS * Pow2(count)))
                       /\ outcome' = outcome
                  ELSE /\ wpc' = "done"
                       /\ elapsed' = After(elapsed, d)
                       /\ outcome' = "Jito request error"
               /\ UNCHANGED <<polls, pendingPolls, lastStatus>>
          ELSE /\ polls' = polls + 1
               /\ pendingPolls' = IF result = "Pending" THEN pendingPolls + 1
                                  ELSE pendingPolls
               /\ lastStatus' = result
               /\ elapsed' = After(elapsed, d)
               /\ IF result = "null" THEN wpc' = "sleep" /\ outcome' = outcome
                  ELSE IF IsFailed(result)
                  THEN wpc' = "done" /\ outcome' = "Bundle execution failed"
                  ELSE IF IsLanded(result)
                  THEN wpc' = "done" /\ outcome' = "returned"
                  ELSE wpc' = "sleep" /\ outcome' = outcome
    /\ UNCHANGED notWait

PollResponds == PollRespondsWith(PollResults)

\* What a request may bring for a bundle that the relay never reports as
\* Pending, Landed or Failed.
StuckResults == {"null", "Invalid", "error"}

\* The same poll, for such a bundle.
PollRespondsStuck == PollRespondsWith(StuckResults)

\* jito.ts:222-223: the backoff is over and the request is made again
BackoffEnds ==
    /\ wpc = "backoff"
    /\ wpc' = "request"
    /\ UNCHANGED <<elapsed, polls, pendingPolls, lastStatus, outcome>>
    /\ UNCHANGED notWait

\* jito.ts:308-309, 320: a second later the loop starts over
SleepEnds ==
    /\ wpc = "sleep"
    /\ wpc' = "head"
    /\ elapsed' = After(elapsed, Seconds(POLL_INTERVAL_MS))
    /\ UNCHANGED <<polls, pendingPolls, lastStatus, outcome>>
    /\ UNCHANGED notWait

NextWait ==
    \/ WaitForBundle
    \/ LoopHead
    \/ PollResponds
    \/ BackoffEnds
    \/ SleepEnds

NextWaitStuck ==
    \/ WaitForBundle
    \/ LoopHead
    \/ PollRespondsStuck
    \/ BackoffEnds
    \/ SleepEnds

(***************************************************************************)
(* getLatestBlockhash: src/src/libs/jito.ts:232-249.                       *)
(***************************************************************************)
Blockhashes == {"hashA", "hashB"}

\* An endpoint fails or answers with a blockhash and its last valid height.
EndpointAnswers ==
    {[ok |-> FALSE, blockhash |-> "none", lastValidBlockHeight |-> 0]}
    \cup [ok : {TRUE}, blockhash : Blockhashes,
          lastValidBlockHeight : 0..MaxBlockHeight]

NoAnswer == [ok |-> FALSE, blockhash |-> "none", lastValidBlockHeight |-> 0]
NoBlockhash == [kind |-> "none", blockhash |-> "none", lastValidBlockHeight |-> 0]

\* The value a call returns for an endpoint's answer.
Returned(answer) ==
    [kind |-> "returned", blockhash |-> answer.blockhash,
     lastValidBlockHeight |-> answer.lastValidBlockHeight]

BlockhashInit ==
    /\ bpc = "idle"
    /\ regularAnswer = NoAnswer
    /\ relayAnswer = NoAnswer
    /\ blockhashResult = NoBlockhash

\* jito.ts:232-235: after the rate-limit check the regular endpoint is asked
GetLatestBlockhash ==
    /\ bpc = "idle"
    /\ bpc' = "regular"
    /\ regularAnswer' \in EndpointAnswers
    /\ relayAnswer' \in EndpointAnswers
    /\ blockhashResult' = NoBlockhash
    /\ UNCHANGED notBlockhash

\* jito.ts:235-238: its answer is returned as it is; its failure is logged
\* and the relay is asked
RegularAnswers ==
    /\ bpc = "regular"
    /\ IF regularAnswer.ok
       THEN bpc' = "done" /\ blockhashResult' = Returned(regularAnswer)
       ELSE bpc' = "relay" /\ blockhashResult' = blockhashResult
    /\ UNCHANGED <<regularAnswer, relayAnswer>>
    /\ UNCHANGED notBlockhash

\* jito.ts:239-247: the relay's result is returned as it is; its error is
\* logged and thrown
RelayAnswers ==
    /\ bpc = "relay"
    /\ bpc' = "done"
    /\ blockhashResult' = IF relayAnswer.ok THEN Returned(relayAnswer)
                          ELSE [NoBlockhash EXCEPT !.kind = "thrown"]
    /\ UNCHANGED <<regularAnswer, relayAnswer>>
    /\ UNCHANGED notBlockhash

\* The caller has the result and may ask again.
BlockhashTaken ==
    /\ bpc = "done"
    /\ bpc' = "idle"
    /\ UNCHANGED <<regularAnswer, relayAnswer, blockhashResult>>
    /\ UNCHANGED notBlockhash

NextBlockhash ==
    \/ GetLatestBlockhash
    \/ RegularAnswers
    \/ RelayAnswers
    \/ BlockhashTaken

(***************************************************************************)
(* getTokenOracleData: src/src/libs/pyth.ts:19-166, for one reserve and so *)
(* one key of priceCache.  The clock ticks twice per cache TTL.            *)
(***************************************************************************)
OracleTickMs == CACHE_TTL_MS \div 2
OracleTicks(ms) == ms \div OracleTickMs
TtlTicks == OracleTicks(CACHE_TTL_MS)
StaleTicks == OracleTicks(STALE_PRICE_THRESHOLD_MS)

\* The value of an undefined confidence.
Undefined == 0 - 1

\* new BigNumber(n)
BigNumber(n) == <<"BigNumber", n>>

\* FALLBACK_PRICES (part_004:61-68), for the symbols of the model
FALLBACK_PRICES == [USDC |-> 1]
FallbackSymbols == {"USDC"}
FallbackPrice(symbol) == IF symbol = "USDC" THEN FALLBACK_PRICES.USDC ELSE 0

\* The reserves of the market configuration: with or without a Pyth oracle
\* (NULL_ORACLE or none), with or without a Switchboard oracle.
ReserveConfigs == [symbol : {"USDC", "SOL"}, pythOracle : BOOLEAN,
                   switchboardOracle : BOOLEAN]
NoReserve == [symbol |-> "none", pythOracle |-> FALSE, switchboardOracle |-> FALSE]

\* What the Pyth account may hold: no data (or the read throws), or a price
\* with its status and confidence.
NoPyth == [data |-> FALSE, status |-> "unknown", price |-> 0, confidence |-> 0]
PythAnswers ==
    {NoPyth} \cup [data : {TRUE}, status : {"trading", "unknown"},
                   price : {0, 100, 200}, confidence : {1, 2}]

\* The price the Switchboard attempts end with, 0 for none.
SwitchboardAnswers == {0, 300}

NoEntry == [present |-> FALSE, price |-> BigNumber(0), confidence |-> Undefined,
            source |-> "none", timestamp |-> 0]
NoResult == [found |-> FALSE, symbol |-> "none", price |-> BigNumber(0),
             confidence |-> Undefined, source |-> "none"]

\* pyth.ts:20-28, 44: priceCache.get gives no entry older than the TTL
lruGet(entry, t) ==
    IF entry.present /\ t - entry.timestamp <= TtlTicks THEN entry ELSE NoEntry

\* pyth.ts:47
Fresh(entry, t) == entry.present /\ t - entry.timestamp < StaleTicks

FromCacheNoConfidence(entry) ==
    [found |-> TRUE, symbol |-> reserve.symbol, price |-> entry.price,
     confidence |-> Undefined, source |-> entry.source]
\* pyth.ts:54-62
FromCache(entry) ==
    [found |-> TRUE, symbol |-> reserve.symbol, price |-> entry.price,
     confidence |-> entry.confidence, source |-> entry.source]

ConfidenceOkAlways(conf, price) == TRUE
\* pyth.ts:78-81: confidence / price * 10000 <= REQUIRED_CONFIDENCE_BPS, for
\* the positive prices of the model
ConfidenceOk(conf, price) == conf * BPS_SCALE <= REQUIRED_CONFIDENCE_BPS * price

\* pyth.ts:74-81
PythAccepted(a) ==
    /\ a.data
    /\ a.price # 0
    /\ a.status = "trading"
    /\ ConfidenceOk(a.confidence, a.price)

SwitchboardAlways(pd) == TRUE
\* pyth.ts:95: !priceData
NoPriceYet(pd) == pd = 0

OracleInit ==
    /\ opc = "unloaded"
    /\ oclock = 0
    /\ reserve = NoReserve
    /\ priceCache = NoEntry
    /\ pythAnswer = NoPyth
    /\ switchboardAnswer = 0
    /\ priceData = 0
    /\ confidence = Undefined
    /\ source = "none"
    /\ consulted = <<>>
    /\ oracleResult = NoResult

\* pyth.ts:168-169: the market configuration names the reserve
LoadMarket ==
    /\ opc = "unloaded"
    /\ opc' = "idle"
    /\ reserve' \in ReserveConfigs
    /\ UNCHANGED <<oclock, priceCache, pythAnswer, switchboardAnswer, priceData,
                   confidence, source, consulted, oracleResult>>
    /\ UNCHANGED notOracle

\* pyth.ts:40-67: the cache is looked up; a fresh entry is returned
OracleCall ==
    /\ opc = "idle"
    /\ consulted' = <<"cache">>
    /\ pythAnswer' = NoPyth
    /\ switchboardAnswer' = 0
    /\ priceData' = 0
    /\ confidence' = Undefined
    /\ source' = "none"
    /\ LET cachedData == lruGet(priceCache, oclock)
       IN  IF Fresh(cachedData, oclock)
           THEN opc' = "done" /\ oracleResult' = FromCache(cachedData)
           ELSE opc' = "pyth" /\ oracleResult' = NoResult
    /\ UNCHANGED <<oclock, reserve, priceCache>>
    /\ UNCHANGED notOracle

\* pyth.ts:69-92
TryPyth ==
    /\ opc = "pyth"
    /\ opc' = "switchboard"
    /\ IF reserve.pythOracle
       THEN /\ consulted' = Append(consulted, "pyth")
            /\ \E a \in PythAnswers :
                  /\ pythAnswer' = a
                  /\ IF PythAccepted(a)
                     THEN /\ priceData' = a.price
                          /\ confidence' = a.confidence
                          /\ source' = "pyth"
                     ELSE UNCHANGED <<priceData, confidence, source>>
       ELSE UNCHANGED <<consulted, pythAnswer, priceData, confidence, source>>
    /\ UNCHANGED <<oclock, reserve, priceCache, switchboardAnswer, oracleResult>>
    /\ UNCHANGED notOracle

\* pyth.ts:94-130
TrySwitchboard ==
    /\ opc = "switchboard"
    /\ opc' = "fallback"
    /\ IF NoPriceYet(priceData) /\ reserve.switchboardOracle
       THEN /\ consulted' = Append(consulted, "switchboard")
            /\ \E v \in SwitchboardAnswers :
                  /\ switchboardAnswer' = v
                  /\ IF v # 0
                     THEN priceData' = v /\ source' = "switchboard"
                     ELSE UNCHANGED <<priceData, source>>
       ELSE UNCHANGED <<consulted, switchboardAnswer, priceData, source>>
    /\ UNCHANGED <<oclock, reserve, priceCache, pythAnswer, confidence,
                   oracleResult>>
    /\ UNCHANGED notOracle

\* pyth.ts:132-161: the fallback table, then null or the write to the cache
\* and the result
FallbackAndReturn ==
    /\ opc = "fallback"
    /\ opc' = "done"
    /\ LET lookup == priceData = 0
           table == lookup /\ reserve.symbol \in FallbackSymbols
           pd == IF table THEN FallbackPrice(reserve.symbol) ELSE priceData
           src == IF table THEN "fallback" ELSE source
       IN  /\ priceData' = pd
           /\ source' = src
           /\ consulted' = IF lookup THEN Append(consulted, "fallback")
                           ELSE consulted
           /\ IF pd = 0
              THEN /\ oracleResult' = NoResult
                   /\ priceCache' = priceCache
              ELSE /\ priceCache' = [present |-> TRUE, price |-> BigNumber(pd),
                                     confidence |-> confidence, source |-> src,
                                     timestamp |-> oclock]
                   /\ oracleResult' = [found |-> TRUE, symbol |-> reserve.symbol,
                                       price |-> BigNumber(pd),
                                       confidence |-> confidence, source |-> src]
    /\ UNCHANGED <<oclock, reserve, pythAnswer, switchboardAnswer, confidence>>
    /\ UNCHANGED notOracle

\* The caller has the result; the next round of prices may be asked for.
OracleTaken ==
    /\ opc = "done"
    /\ opc' = "idle"
    /\ UNCHANGED <<oclock, reserve, priceCache, pythAnswer, switchboardAnswer,
                   priceData, confidence, source, consulted, oracleResult>>
    /\ UNCHANGED notOracle

\* Time passes.
OracleTick ==
    /\ opc # "unloaded"
    /\ oclock < MaxOracleTicks
    /\ oclock' = oclock + 1
    /\ UNCHANGED <<opc, reserve, priceCache, pythAnswer, switchboardAnswer,
                   priceData, confidence, source, consulted, oracleResult>>
    /\ UNCHANGED notOracle

\* pyth.ts:26: the cache holds 500 entries and drops the least recently used
CacheEvicts ==
    /\ priceCache.present
    /\ priceCache' = NoEntry
    /\ UNCHANGED <<opc, oclock, reserve, pythAnswer, switchboardAnswer,
                   priceData, confidence, source, consulted, oracleResult>>
    /\ UNCHANGED notOracle

NextOracle ==
    \/ LoadMarket
    \/ OracleCall
    \/ TryPyth
    \/ TrySwitchboard
    \/ FallbackAndReturn
    \/ OracleTaken
    \/ OracleTick
    \/ CacheEvicts

(***************************************************************************)
(* getTokensOracleData: src/src/libs/pyth.ts:168-191, over the             *)
(* getTokenOracleData calls it starts, one per reserve of the market.  The *)
(* calls run concurrently and settle in any order.                         *)
(***************************************************************************)
\* How one getTokenOracleData call ends: with a price from one of the
\* sources, without a price (pyth.ts:139-142), or with an oracle read that
\* throws inside the try block (pyth.ts:41-161).
PriceSources == {"pyth", "switchboard", "fallback"}
CallEndings == PriceSources \cup {"noPrice", "threw"}

Pending == [state |-> "pending", value |-> "none", reserve |-> 0, ending |-> "none"]

\* A promise fulfilled with the value v, and a rejected one.
Fulfilled(v, i, ending) ==
    [state |-> "fulfilled", value |-> v, reserve |-> i, ending |-> ending]
Rejected(i, ending) ==
    [state |-> "rejected", value |-> "none", reserve |-> i, ending |-> ending]

OracleCatchRethrows(i) == Rejected(i, "threw")

\* pyth.ts:162-165: the catch block logs and returns null
OracleCatch(i) == Fulfilled("null", i, "threw")

\* pyth.ts:40-166: the promise of getTokenOracleData for reserve i
Settle(i, ending) ==
    CASE ending = "threw" -> OracleCatch(i)
      [] ending = "noPrice" -> Fulfilled("null", i, ending)
      [] OTHER -> Fulfilled(ending, i, ending)

\* pyth.ts:153-161: the entry a fulfilled promise carries
Entry(promise) == [reserveAddress |-> promise.reserve, source |-> promise.value]

RECURSIVE Entries(_, _)
\* pyth.ts:170-173: the awaited results, null ones filtered out, in order
Entries(ps, n) ==
    IF n = 0 THEN <<>>
    ELSE IF ps[n].value = "null" THEN Entries(ps, n - 1)
         ELSE Append(Entries(ps, n - 1), Entry(ps[n]))

PricesInit ==
    /\ tpc = "idle"
    /\ promises = <<>>
    /\ tokensOracle = <<>>

\* pyth.ts:169: one call per reserve of the market
GetTokensOracleData ==
    /\ tpc = "idle"
    /\ \E n \in 0..MaxMarketReserves :
          promises' = [i \in 1..n |-> Pending]
    /\ tokensOracle' = <<>>
    /\ tpc' = "awaiting"
    /\ UNCHANGED notPrices

\* pyth.ts:40-166: one of the calls ends
TokenCallEnds(i) ==
    /\ tpc = "awaiting"
    /\ i \in 1..Len(promises)
    /\ promises[i].state = "pending"
    /\ \E ending \in CallEndings :
          promises' = [promises EXCEPT ![i] = Settle(i, ending)]
    /\ UNCHANGED <<tpc, tokensOracle>>
    /\ UNCHANGED notPrices

\* pyth.ts:170-190: Promise.all settles; the call filters and returns, or
\* rejects with the first rejection
PromiseAllSettles ==
    /\ tpc = "awaiting"
    /\ IF \E i \in 1..Len(promises) : promises[i].state = "rejected"
       THEN /\ tpc' = "rejected"
            /\ UNCHANGED tokensOracle
       ELSE /\ \A i \in 1..Len(promises) : promises[i].state = "fulfilled"
            /\ tokensOracle' = Entries(promises, Len(promises))
            /\ tpc' = "returned"
    /\ UNCHANGED promises
    /\ UNCHANGED notPrices

\* liquidate.ts:158: the orchestrator takes the result; the next pass calls again
TokensTaken ==
    /\ tpc = "returned"
    /\ tpc' = "idle"
    /\ promises' = <<>>
    /\ tokensOracle' = <<>>
    /\ UNCHANGED notPrices

NextPrices ==
    \/ GetTokensOracleData
    \/ \E i \in 1..MaxMarketReserves : TokenCallEnds(i)
    \/ PromiseAllSettles
    \/ TokensTaken

(***************************************************************************)
(* runLiquidator: src/src/liquidate.ts:104-241.  One action is the code    *)
(* between two awaits whose outcome matters; a throw inside the try block  *)
(* of a market pass runs the catch block in the same action.               *)
(***************************************************************************)
\* BOT_CONFIG.THROTTLE: undefined, or the delay between market scans
Throttles == {0, 1000}

\* liquidate.ts:150: for (const market of markets), and the epoch loop around it
NextMarketIdx == IF marketIdx = NumMarkets THEN 1 ELSE marketIdx + 1
NextEpoch == IF marketIdx = NumMarkets THEN epoch + 1 ELSE epoch

Advance ==
    /\ mpc' = "health"
    /\ marketIdx' = NextMarketIdx
    /\ epoch' = NextEpoch
    /\ timer' = 0

TooManyErrorsOffByOne(errors) == errors > MAX_CONSECUTIVE_ERRORS
\* liquidate.ts:222
TooManyErrors(errors) == errors >= MAX_CONSECUTIVE_ERRORS

AfterTooManyErrorsExits == "exited"
\* liquidate.ts:223-225: too many errors in a row are waited out
AfterTooManyErrors == "cooldown"

\* liquidate.ts:209-227: the catch block of a market pass
Throw ==
    /\ consecutiveErrors' = consecutiveErrors + 1
    /\ streak' = streak + 1
    /\ IF TooManyErrors(consecutiveErrors')
       THEN /\ mpc' = AfterTooManyErrors
            /\ timer' = ERROR_COOLDOWN_MS
            /\ UNCHANGED <<marketIdx, epoch>>
       ELSE Advance

LoopInit ==
    /\ mpc = "startup"
    /\ epoch = 0
    /\ marketIdx = 1
    /\ consecutiveErrors = 0
    /\ throttle = 0
    /\ isHealthy = TRUE
    /\ allObligations = <<>>
    /\ batchStart = 0
    /\ tasks = <<>>
    /\ processed = 0
    /\ rejected = 0
    /\ timer = 0
    /\ attemptLog = <<>>
    /\ streak = 0
    /\ unhealthySeen = FALSE

\* liquidate.ts:105-147 and 230-240: setup, markets, the initial health
\* check and Jupiter.load; a failure of any of them exits the process
Startup ==
    /\ mpc = "startup"
    /\ \E ok \in BOOLEAN, th \in Throttles :
          IF ok THEN /\ mpc' = "health"
                     /\ throttle' = th
                ELSE /\ mpc' = "exited"
                     /\ UNCHANGED throttle
    /\ UNCHANGED <<epoch, marketIdx, consecutiveErrors, isHealthy,
                   allObligations, batchStart, tasks, processed, rejected,
                   timer, attemptLog, streak, unhealthySeen>>
    /\ UNCHANGED notLoop

HealthCheckIgnored(healthy) == FALSE
\* liquidate.ts:154
HealthCheckFailed(healthy) == ~healthy

\* liquidate.ts:151-156: a pass starts with the periodic health check
PeriodicHealthCheck ==
    /\ mpc = "health"
    /\ epoch < MaxEpochs
    /\ attemptLog' = Append(attemptLog, marketIdx)
    /\ allObligations' = <<>>
    /\ batchStart' = 0
    /\ tasks' = <<>>
    /\ processed' = 0
    /\ rejected' = 0
    /\ \E healthy \in BOOLEAN :
          /\ isHealthy' = healthy
          /\ unhealthySeen' = (unhealthySeen \/ ~healthy)
          /\ IF HealthCheckFailed(healthy)
             THEN Throw
             ELSE /\ mpc' = "oracle"
                  /\ UNCHANGED <<epoch, marketIdx, consecutiveErrors, timer,
                                 streak>>
    /\ UNCHANGED throttle
    /\ UNCHANGED notLoop

\* liquidate.ts:158-161: the prices of the market's reserves
FetchOracle ==
    /\ mpc = "oracle"
    /\ \E length \in 0..1 :
          IF length = 0
          THEN Throw
          ELSE /\ mpc' = "obligations"
               /\ UNCHANGED <<epoch, marketIdx, consecutiveErrors, timer, streak>>
    /\ UNCHANGED <<throttle, isHealthy, allObligations, batchStart, tasks,
                   processed, rejected, attemptLog, unhealthySeen>>
    /\ UNCHANGED notLoop

\* liquidate.ts:163-166
FetchObligations ==
    /\ mpc = "obligations"
    /\ \/ /\ Throw
          /\ UNCHANGED allObligations
       \/ /\ \E n \in 0..MaxObligations :
                allObligations' = [k \in 1..n |-> k]
          /\ mpc' = "reserves"
          /\ UNCHANGED <<epoch, marketIdx, consecutiveErrors, timer, streak>>
    /\ UNCHANGED <<throttle, isHealthy, batchStart, tasks, processed, rejected,
                   attemptLog, unhealthySeen>>
    /\ UNCHANGED notLoop

\* liquidate.ts:180: allObligations.slice(i, i + LIQUIDATION_BATCH_SIZE)
BatchLen(i) ==
    IF i + LIQUIDATION_BATCH_SIZE <= Len(allObligations)
    THEN LIQUIDATION_BATCH_SIZE
    ELSE Len(allObligations) - i

NextBatchStartByOne(i) == i + 1
\* liquidate.ts:179: i += LIQUIDATION_BATCH_SIZE
NextBatchStart(i) == i + LIQUIDATION_BATCH_SIZE

\* liquidate.ts:179-198: the head of the batch loop at i: the next batch is
\* started, one processObligation call per obligation, or the loop ends
BatchLoop(i) ==
    /\ batchStart' = i
    /\ IF i < Len(allObligations)
       THEN /\ mpc' = "batch"
            /\ tasks' = [k \in 1..BatchLen(i) |-> "pending"]
            /\ processed' = processed + BatchLen(i)
       ELSE /\ mpc' = "unwrap"
            /\ tasks' = <<>>
            /\ UNCHANGED processed

\* liquidate.ts:168-179
FetchReserves ==
    /\ mpc = "reserves"
    /\ \/ /\ Throw
          /\ UNCHANGED <<batchStart, tasks, processed>>
       \/ /\ BatchLoop(0)
          /\ UNCHANGED <<epoch, marketIdx, consecutiveErrors, timer, streak>>
    /\ UNCHANGED <<throttle, isHealthy, allObligations, rejected, attemptLog,
                   unhealthySeen>>
    /\ UNCHANGED notLoop

ObligationCatchRethrows(settled) == settled
\* liquidate.ts:191-197: the catch handler logs a rejection and fulfils
ObligationCatch(settled) ==
    IF settled = "rejected" THEN "caught" ELSE settled

\* liquidate.ts:182-198: one processObligation call of the batch settles
ObligationSettles(k) ==
    /\ mpc = "batch"
    /\ k \in 1..Len(tasks)
    /\ tasks[k] = "pending"
    /\ \E settled \in {"resolved", "rejected"} :
          /\ tasks' = [tasks EXCEPT ![k] = ObligationCatch(settled)]
          /\ rejected' = IF settled = "rejected" THEN rejected + 1 ELSE rejected
    /\ UNCHANGED <<mpc, epoch, marketIdx, consecutiveErrors, throttle,
                   isHealthy, allObligations, batchStart, processed, timer,
                   attemptLog, streak, unhealthySeen>>
    /\ UNCHANGED notLoop

\* liquidate.ts:181-200: Promise.all settles: with a rejection as soon as one
\* of its promises has rejected, else when all are fulfilled
BatchSettles ==
    /\ mpc = "batch"
    /\ IF \E k \in 1..Len(tasks) : tasks[k] = "rejected"
       THEN /\ Throw
            /\ UNCHANGED <<batchStart, tasks, processed>>
       ELSE /\ \A k \in 1..Len(tasks) : tasks[k] # "pending"
            /\ BatchLoop(NextBatchStart(batchStart))
            /\ UNCHANGED <<epoch, marketIdx, consecutiveErrors, timer, streak>>
    /\ UNCHANGED <<throttle, isHealthy, allObligations, rejected, attemptLog,
                   unhealthySeen>>
    /\ UNCHANGED notLoop

\* liquidate.ts:202-207: unwrapTokens, the counter reset and the throttle
UnwrapTokens ==
    /\ mpc = "unwrap"
    /\ \/ Throw
       \/ /\ consecutiveErrors' = 0
          /\ streak' = 0
          /\ IF throttle # 0
             THEN /\ mpc' = "throttle"
                  /\ timer' = throttle
                  /\ UNCHANGED <<epoch, marketIdx>>
             ELSE Advance
    /\ UNCHANGED <<throttle, isHealthy, allObligations, batchStart, tasks,
                   processed, rejected, attemptLog, unhealthySeen>>
    /\ UNCHANGED notLoop

\* liquidate.ts:206: the throttle timer fires
ThrottleEnds ==
    /\ mpc = "throttle"
    /\ Advance
    /\ UNCHANGED <<consecutiveErrors, throttle, isHealthy, allObligations,
                   batchStart, tasks, processed, rejected, attemptLog, streak,
                   unhealthySeen>>
    /\ UNCHANGED notLoop

\* liquidate.ts:224-225: the cooldown timer fires and the counter is reset
CooldownEnds ==
    /\ mpc = "cooldown"
    /\ consecutiveErrors' = 0
    /\ Advance
    /\ UNCHANGED <<throttle, isHealthy, allObligations, batchStart, tasks,
                   processed, rejected, attemptLog, streak, unhealthySeen>>
    /\ UNCHANGED notLoop

NextLoop ==
    \/ Startup
    \/ PeriodicHealthCheck
    \/ FetchOracle
    \/ FetchObligations
    \/ FetchReserves
    \/ \E k \in 1..LIQUIDATION_BATCH_SIZE : ObligationSettles(k)
    \/ BatchSettles
    \/ UnwrapTokens
    \/ ThrottleEnds
    \/ CooldownEnds

(***************************************************************************)
(* sortBorrows and comparePubkeys: src/src/config.ts:575-601.              *)
(***************************************************************************)
\* BN.cmp: -1, 0 or 1
cmp(x, y) == IF x < y THEN -1 ELSE IF x > y THEN 1 ELSE 0

BorrowOrderByWeight(a, b) ==
    cmp(b.addedBorrowWeightBPS, a.addedBorrowWeightBPS)
\* config.ts:576-582: the comparator handed to Array.prototype.sort
BorrowOrder(a, b) ==
    IF a.addedBorrowWeightBPS = b.addedBorrowWeightBPS
    THEN comparePubkeys(b.borrowReserve, a.borrowReserve)
    ELSE cmp(b.addedBorrowWeightBPS, a.addedBorrowWeightBPS)

RECURSIVE Insert(_, _)
\* One step of the stable sort: x goes behind every element that the
\* comparator does not place after it.
Insert(s, x) ==
    IF s = <<>> THEN <<x>>
    ELSE IF BorrowOrder(s[Len(s)], x) <= 0 THEN Append(s, x)
    ELSE Append(Insert(SubSeq(s, 1, Len(s) - 1), x), s[Len(s)])

RECURSIVE sortBorrows(_)
\* config.ts:575-584: borrows.sort(comparator), a stable sort
sortBorrows(borrows) ==
    IF borrows = <<>> THEN <<>>
    ELSE Insert(sortBorrows(SubSeq(borrows, 1, Len(borrows) - 1)),
                borrows[Len(borrows)])

\* No comparePubkeys call yet.
NoComparison == [a |-> "none", b |-> "none", result |-> 0]

\* The borrow lists sortBorrows may be called with.
SortArgs ==
    SeqUpTo([addedBorrowWeightBPS : Weights, borrowReserve : Pubkeys],
            MaxSortLen)

SortInit ==
    /\ spc = "idle"
    /\ borrowsArg = <<>>
    /\ sortedBorrows = <<>>
    /\ compared = NoComparison

\* config.ts:575-584: one sortBorrows call
SortBorrowsCall ==
    /\ spc = "idle"
    /\ \E borrows \in SortArgs :
          /\ borrowsArg' = borrows
          /\ sortedBorrows' = sortBorrows(borrows)
    /\ spc' = "sorted"
    /\ UNCHANGED compared
    /\ UNCHANGED notSort

\* The caller has taken the sorted list.
SortTaken ==
    /\ spc = "sorted"
    /\ spc' = "idle"
    /\ borrowsArg' = <<>>
    /\ sortedBorrows' = <<>>
    /\ UNCHANGED compared
    /\ UNCHANGED notSort

\* config.ts:586-601: one comparePubkeys call
ComparePubkeysCall ==
    /\ \E a \in Pubkeys, b \in Pubkeys :
          compared' = [a |-> a, b |-> b, result |-> comparePubkeys(a, b)]
    /\ UNCHANGED <<spc, borrowsArg, sortedBorrows>>
    /\ UNCHANGED notSort

NextSort ==
    \/ SortBorrowsCall
    \/ SortTaken
    \/ ComparePubkeysCall

(***************************************************************************)
(* Specifications.                                                         *)
(***************************************************************************)
RestInit ==
    /\ RelayInit /\ WaitInit /\ BlockhashInit /\ OracleInit /\ PricesInit
    /\ LoopInit /\ SortInit

InitCompose == ComposeInit /\ ObligationInit /\ JitoInit /\ RestInit
NextCompose == ComposeStep
SpecCompose == InitCompose /\ [][NextCompose]_vars

InitObligation == ObligationInit /\ ComposeIdle /\ JitoInit /\ RestInit
SpecObligation == InitObligation /\ [][NextObligation]_vars

\* processObligation with the first evaluation of the obligation observed.
SpecObligationObserved == InitObligation /\ [][NextObligationObserved]_vars

InitJito == JitoInit /\ ComposeIdle /\ ObligationInit /\ RestInit
SpecJito == InitJito /\ [][NextJito]_vars

SpecLimiter == InitJito /\ [][NextLimiter]_vars

SpecBundle == InitJito /\ [][NextBundle]_vars

SpecRelay == InitJito /\ [][NextRelay]_vars

SpecBlockhash == InitJito /\ [][NextBlockhash]_vars

SpecOracle == InitJito /\ [][NextOracle]_vars

SpecPrices == InitJito /\ [][NextPrices]_vars

SpecLoop == InitJito /\ [][NextLoop]_vars

\* Every step of the orchestrator that can be taken is taken eventually:
\* timers fire and every awaited call of a market pass returns or throws.
SpecLoopFair == SpecLoop /\ WF_vars(NextLoop)

SpecSort == InitJito /\ [][NextSort]_vars

SpecWait == InitJito /\ [][NextWait]_vars

\* Every step of waitForBundle that can be taken is taken eventually: timers
\* fire and the HTTP client answers or times out.
SpecWaitFair == SpecWait /\ WF_vars(NextWait)

\* waitForBundle for a bundle that is only ever reported as Invalid or not
\* reported at all, with the same fair scheduler.
SpecWaitStuck == InitJito /\ [][NextWaitStuck]_vars
SpecWaitStuckFair == SpecWaitStuck /\ WF_vars(NextWaitStuck)

(***************************************************************************)
(* Claims about liquidateAndRedeem, under SpecCompose.                     *)
(***************************************************************************)

\* C1: every on-chain action of one liquidation attempt is carried by the one
\* transaction that is composed, simulated and sent: whatever the attempt had
\* executed on chain is that transaction, after its simulation passed and
\* through a sendRawTransaction call.
C1_OneTransaction ==
    \A i \in 1..Len(chainTxs) :
        /\ chainTxs[i] = ixs
        /\ simulation = "ok"
        /\ sendCalls >= 1

\* C2: when the simulation of the composed transaction reports an error, the
\* attempt is rejected and has made no sendRawTransaction call.
C2_SimulationErrorNoSend ==
    simulation = "err" => (lpc = "rejected" /\ sendCalls = 0)

C2_Witness ==
    /\ simulation = "err"
    /\ lpc = "rejected"
    /\ Len(ixs) >= 4

\* C3: when the simulation fails, the attempt has executed no transaction on
\* chain: nothing is executed before the simulation has passed.
C3_NothingExecutedOnSimulationFailure ==
    simulation = "err" => chainTxs = <<>>

\* C28: when the DEX aggregator returns no route from the seized collateral to
\* the repay token, the attempt is rejected and has simulated no transaction,
\* made no sendRawTransaction call and executed nothing on chain.
C28_NoRouteNothingSent ==
    (routes.computed /\ Len(routes.routesInfos) = 0) =>
        /\ lpc = "rejected"
        /\ simulation = "none"
        /\ sendCalls = 0
        /\ chainTxs = <<>>

C28_Witness ==
    /\ routes.computed
    /\ routes.routesInfos = <<>>
    /\ lpc = "rejected"
    /\ Len(ixs) >= 4
    /\ ixs[Len(ixs)].op = "liquidateAndRedeem"

\* The attempt has composed its whole transaction: the repay instruction has
\* been pushed (liquidate.ts:431) and the attempt has not been rejected since.
Composed ==
    lpc \in {"blockhash", "simulate", "send", "confirm", "resolved"}

\* The positions of the instructions of kind op in the composed transaction.
Positions(op) == {i \in 1..Len(ixs) : ixs[i].op = op}

\* The reserves the obligation's deposits and borrows refer to.
ReferencedReserves ==
    {obligation.deposits[i] : i \in 1..Len(obligation.deposits)}
        \cup {obligation.borrows[i] : i \in 1..Len(obligation.borrows)}

\* C34: in the composed transaction there is exactly one reserve-refresh
\* instruction per distinct reserve of the obligation's deposits and borrows
\* and none for another reserve; all of them precede the one refresh-obligation
\* instruction, which precedes the one flash-borrow, which precedes the one
\* liquidate-and-redeem, which precedes the one flash-repay, and the
\* flash-repay is the last instruction.
C34_InstructionOrder ==
    Composed =>
        /\ \A r \in ReferencedReserves :
              Cardinality({i \in Positions("refreshReserve") :
                              ixs[i].arg = r}) = 1
        /\ \A i \in Positions("refreshReserve") :
              ixs[i].arg \in ReferencedReserves
        /\ \A op \in {"refreshObligation", "flashBorrow",
                       "liquidateAndRedeem", "flashRepay"} :
              Cardinality(Positions(op)) = 1
        /\ \A i \in Positions("refreshReserve") :
              \A j \in Positions("refreshObligation") : i < j
        /\ \A i \in Positions("refreshObligation") :
              \A j \in Positions("flashBorrow") : i < j
        /\ \A i \in Positions("flashBorrow") :
              \A j \in Positions("liquidateAndRedeem") : i < j
        /\ \A i \in Positions("liquidateAndRedeem") :
              \A j \in Positions("flashRepay") : i < j
        /\ Positions("flashRepay") = {Len(ixs)}

\* A confirmed attempt on an obligation that refers to one reserve twice and
\* needed both token accounts created.
C34_Witness ==
    /\ lpc = "resolved"
    /\ Len(obligation.deposits) + Len(obligation.borrows)
           > Cardinality(ReferencedReserves)
    /\ Cardinality(ReferencedReserves) = 2
    /\ Cardinality(Positions("createAccount")) = 2

\* C38: the borrow-instruction index embedded in the flash-repay instruction
\* is the position (counted from 0) of the flash-borrow instruction in the
\* composed transaction.
C38_RepayPointsAtBorrow ==
    Composed =>
        \A i \in Positions("flashRepay") :
            \A j \in Positions("flashBorrow") : ixs[i].arg = j - 1

(***************************************************************************)
(* Claims about processObligation, under SpecObligation.                   *)
(***************************************************************************)

\* C4: a liquidation is attempted only if borrowedValue > unhealthyBorrowValue;
\* a snapshot with borrowedValue <= unhealthyBorrowValue (equality included)
\* ends the loop without any liquidation attempt.
C4_LiquidateOnlyIfUnhealthy ==
    /\ (ppc \in {"liquidate", "convert", "refetch", "rejected"} \/ passCalls > 0)
          => evaluation.borrowedValue > evaluation.unhealthyBorrowValue
    /\ (ppc # "evaluate"
        /\ evaluation.borrowedValue <= evaluation.unhealthyBorrowValue)
          => (ppc = "done" /\ passCalls = 0)

C4_Witness ==
    /\ ppc = "done"
    /\ evals = 1
    /\ evaluation.borrowedValue = 80
    /\ evaluation.unhealthyBorrowValue = 80
    /\ Len(evaluation.borrows) > 0
    /\ Len(evaluation.deposits) > 0

\* C5: the borrow handed to liquidateAndRedeem has the highest borrow weight
\* of the obligation's borrows and, among those of equal weight, the
\* byte-wise largest reserve address, whatever the order of the borrows.
C5_RepayIsHighestWeight ==
    ppc = "liquidate" =>
        LET sel == evaluation.borrows[selectedBorrow]
        IN  \A i \in 1..Len(evaluation.borrows) :
                LET b == evaluation.borrows[i]
                IN  \/ b.addedBorrowWeightBPS < sel.addedBorrowWeightBPS
                    \/ /\ b.addedBorrowWeightBPS = sel.addedBorrowWeightBPS
                       /\ comparePubkeys(b.borrowReserve, sel.borrowReserve) <= 0

\* C6: the deposit selected as collateral has the maximum market value of the
\* obligation's deposits, and is the first of those that share that maximum.
C6_WithdrawIsFirstMaximum ==
    ppc = "liquidate" =>
        /\ selectedDeposit \in 1..Len(evaluation.deposits)
        /\ \A i \in 1..Len(evaluation.deposits) :
              /\ evaluation.deposits[i].marketValue
                    <= evaluation.deposits[selectedDeposit].marketValue
              /\ i < selectedDeposit =>
                    evaluation.deposits[i].marketValue
                       < evaluation.deposits[selectedDeposit].marketValue

C6_Witness ==
    /\ ppc = "liquidate"
    /\ Len(evaluation.deposits) = 2
    /\ evaluation.deposits[1].marketValue = 2
    /\ evaluation.deposits[2].marketValue = 2
    /\ selectedDeposit = 1

\* C25: a further liquidation pass is made only while the re-fetched
\* obligation is still unhealthy.  An evaluation beyond the first is made
\* only of an obligation that was unhealthy at first; once an evaluation
\* finds it healthy the loop has ended without error, one successful
\* liquidation after each earlier evaluation.  So an obligation evaluated at
\* 85 against 80 and, after one successful pass, at 40 against 80 has had
\* exactly one liquidation.
C25_LoopEndsWhenHealthy ==
    /\ evals >= 2 => initialHealth[1] > initialHealth[2]
    /\ (ppc # "evaluate"
        /\ evaluation.borrowedValue <= evaluation.unhealthyBorrowValue) =>
          /\ ppc = "done"
          /\ totalLiquidations = evals - 1
          /\ failedLiquidations = 0
          /\ passCalls = 0

C25_Witness ==
    /\ initialHealth = <<85, 80>>
    /\ evals = 2
    /\ evaluation.borrowedValue = 40
    /\ evaluation.unhealthyBorrowValue = 80
    /\ ppc = "done"
    /\ totalLiquidations = 1
    /\ Len(evaluation.borrows) > 0
    /\ Len(evaluation.deposits) > 0

\* C26: when an unhealthy obligation has no borrow or no deposit to select,
\* the loop of that obligation ends without an invocation of
\* liquidateAndRedeem, without a LiquidationError and without a count in the
\* failed-liquidation metric.
C26_IndeterminateIsSkipped ==
    (/\ ppc # "evaluate"
     /\ evaluation.borrowedValue > evaluation.unhealthyBorrowValue
     /\ (Len(evaluation.borrows) = 0 \/ Len(evaluation.deposits) = 0))
        => /\ ppc = "done"
           /\ passCalls = 0
           /\ failedLiquidations = 0
           /\ totalLiquidations = evals - 1

C26_Witness ==
    /\ ppc = "done"
    /\ evaluation.borrowedValue = 85
    /\ evaluation.unhealthyBorrowValue = 80
    /\ Len(evaluation.borrows) = 0
    /\ Len(evaluation.deposits) = 2
    /\ failedLiquidations = 0

\* C27: one liquidation pass invokes liquidateAndRedeem at most
\* MAX_RETRIES + 1 times, and when the last of these has failed too the
\* obligation is no longer processed: processObligation has rejected and
\* counted one failed liquidation.
C27_AttemptsBounded ==
    /\ passCalls <= MAX_RETRIES + 1
    /\ (passCalls = MAX_RETRIES + 1 /\ fetchedAfter)
          => (ppc = "rejected" /\ failedLiquidations = 1)

C27_Witness ==
    /\ passCalls = MAX_RETRIES + 1
    /\ fetchedAfter
    /\ ppc = "rejected"
    /\ totalLiquidations = 1

\* C30: between two successive liquidations of the same obligation the
\* account is fetched and parsed again: every evaluation and every attempt
\* uses a snapshot fetched after the last liquidation, one evaluation per
\* snapshot, and when the re-fetch or the parse yields nothing no further
\* evaluation or liquidation is made.
C30_RefetchBetweenLiquidations ==
    /\ ppc \in {"evaluate", "liquidate"} => fetchedAfter
    /\ ppc = "evaluate" => totalLiquidations = evals
    /\ ppc = "liquidate" => totalLiquidations = evals - 1
    /\ (ppc = "done" /\ ~fetchedAfter) => totalLiquidations = evals

C30_Witness ==
    /\ ppc = "liquidate"
    /\ fetchedAfter
    /\ totalLiquidations = 1
    /\ evals = 2


C39_PassCountedOnce ==
    totalLiquidations + failedLiquidations <= evals

(***************************************************************************)
(* Claims about the execution client (SpecJito).                           *)
(***************************************************************************)

\* C7: one makeJitoRequest call against a relay that fails every request is
\* retried at most maxRetries times and then rejects.  The finally block resets
\* the counter as soon as a retry is launched, so the retries of one call are
\* not bounded by maxRetries.
C7_RetriesBounded ==
    \A c \in Callers : call[c].kind = "request" => call[c].retries <= maxRetries

\* C8: every new makeJitoRequest or sendRawTransaction call starts with an
\* attempt counter of zero, whatever other calls did before or do meanwhile.
\* The counter is one field of the connection, shared by all calls.
C8_NewCallStartsAtZero ==
    [][\A c \in Callers :
          call[c].pc = "idle" /\ call'[c].pc # "idle" => retryCount = 0]_vars

\* Caller c ran checkRateLimit in this step.
CheckRan(c) ==
    /\ call'[c] # call[c]
    /\ \/ call[c].pc \in {"idle", "preWait", "rateWait", "retrySleep",
                          "sendRetrySleep"}
       \/ call[c].pc = "enter" /\ call[c].kind = "sendRaw" /\ call[c].wellFormed

\* Both counters, after the resets due now, are below their caps.
BelowCaps ==
    /\ resetCounters(rateLimiter, now).dailyRequests < dailyLimit
    /\ resetCounters(rateLimiter, now).monthlyRequests < monthlyLimit

\* C9: with burstRequests admissions inside the last second, the next call to
\* checkRateLimit is not admitted and does not fail but waits; a call is
\* admitted only with fewer than burstRequests admissions inside the last
\* second, and a check that runs once the window has cleared (the counters
\* being below the daily and monthly caps) admits the call.
C9_BurstBlocksUntilWindowClears ==
    [][\A c \in Callers : CheckRan(c) =>
          /\ Len(recent) >= burstRequests =>
                /\ admitted' = admitted
                /\ call'[c].pc \in {"rateWait", "preWait"}
                /\ call'[c].wakeAt > now
          /\ admitted' = admitted + 1 => Len(recent) < burstRequests
          /\ Len(recent) < burstRequests /\ BelowCaps =>
                /\ admitted' = admitted + 1
                /\ call'[c].blocked = "none"]_vars

\* A call waits on the burst cap, its cooldown has passed and the window is clear.
C9_Witness ==
    \E c \in Callers :
        /\ call[c].blocked = "burst"
        /\ call[c].pc \in {"rateWait", "preWait"}
        /\ now >= call[c].wakeAt
        /\ Len(recent) = 0

\* C10: whatever the interleaving of the callers, at no time are more than
\* burstRequests admissions inside one window of a second, and the admissions
\* counted since the last reset never exceed dailyLimit or monthlyLimit.
C10_CapsNeverExceeded ==
    /\ Len(recent) <= burstRequests
    /\ Len(rateLimiter.requestQueue) <= burstRequests
    /\ rateLimiter.dailyRequests <= dailyLimit
    /\ rateLimiter.monthlyRequests <= monthlyLimit
    /\ admitted <= monthlyLimit

\* The window is full while both callers have a call in flight, one of them
\* turned away by the burst cap.
C10_Witness ==
    /\ Len(recent) = burstRequests
    /\ \A c \in Callers : call[c].pc # "idle"
    /\ \E c \in Callers : call[c].blocked = "burst"


(***************************************************************************)
(* Claims about the rate limiter over day and month boundaries             *)
(* (SpecLimiter).                                                          *)
(***************************************************************************)

DayPassed == now - rateLimiter.lastReset.daily >= DayTicks
MonthPassed == now - rateLimiter.lastReset.monthly >= MonthTicks

\* C11: a checkRateLimit that runs once 24 hours have passed since the last
\* daily reset restarts the daily counter from zero before the caps are
\* evaluated, so it does not turn the caller away on the daily cap and admits
\* a caller that was waiting on it (the window and the monthly counter
\* allowing); likewise for the monthly counter once 30 days have passed.
C11_CountersResetAtBoundary ==
    [][\A c \in Callers : CheckRan(c) =>
          LET one == IF admitted' = admitted + 1 THEN 1 ELSE 0
          IN  /\ DayPassed =>
                    /\ rateLimiter'.lastReset.daily = now
                    /\ rateLimiter'.dailyRequests = one
                    /\ call'[c].blocked # "daily"
              /\ MonthPassed =>
                    /\ rateLimiter'.lastReset.monthly = now
                    /\ rateLimiter'.monthlyRequests = one
                    /\ call'[c].blocked # "monthly"
              /\ /\ call[c].blocked \in {"daily", "monthly"}
                 /\ DayPassed
                 /\ MonthPassed \/ rateLimiter.monthlyRequests < monthlyLimit
                 /\ Len(recent) < burstRequests
                 => admitted' = admitted + 1 /\ call'[c].blocked = "none"]_vars

\* After dailyLimit admissions and a day boundary, one caller has been
\* admitted on the reset counter while another, turned away on the daily cap
\* earlier, has its re-check still ahead.
C11_Witness ==
    /\ admitted = dailyLimit + 1
    /\ rateLimiter.dailyRequests = 1
    /\ rateLimiter.lastReset.daily = now
    /\ now >= DayTicks
    /\ \E c \in Callers : call[c].blocked = "daily" /\ now >= call[c].wakeAt


(***************************************************************************)
(* Claims about the circuit breaker (SpecRelay).                           *)
(***************************************************************************)

\* The number of observed calls from which the error ratio counts.
MinObservedCalls == 100

\* The condition under which the breaker is to be open.
ErrorRatioExceeded ==
    /\ observed >= MinObservedCalls
    /\ failures * 100 > ERROR_THRESHOLD_PERCENT * observed

\* C12: once at least 100 relay calls have been observed and the ratio of
\* failed to total calls exceeds ERROR_THRESHOLD, no request is sent to the
\* relay: the next call fails fast.  makeJitoRequest keeps no error statistics
\* and posts the request whatever the earlier outcomes were.
C12_NoRequestWhileOpen ==
    ~(ErrorRatioExceeded /\ relayPc = "request")


(***************************************************************************)
(* Claims about waitForBundle (SpecWait, SpecWaitFair).                    *)
(***************************************************************************)

\* C13: waitForBundle returns successfully only after a poll observed the
\* status Landed, and a poll that observes Landed (after Pending polls or
\* not) makes it return; no other status yields a successful return.
C13_ReturnsOnlyLanded ==
    /\ outcome = "returned" => lastStatus = "Landed" /\ wpc = "done" /\ polls >= 1
    /\ lastStatus = "Landed" => outcome = "returned"

\* Landed came on the fourth poll, after three polls that saw Pending, before
\* the deadline.
C13_Witness ==
    /\ outcome = "returned"
    /\ polls = 4
    /\ pendingPolls = 3
    /\ elapsed <= TimeoutSeconds

\* C14: for a bundle that never reaches Landed or Failed, waitForBundle ends
\* with the timeout error once the deadline has passed; it does not go on
\* forever.  A relay that answers every getBundleStatuses request with an
\* error keeps makeJitoRequest retrying inside one poll, and the deadline is
\* looked at only between polls.
C14_TimeoutEventually ==
    (wpc = "head") ~> (outcome # "none" \/ lastStatus \in {"Landed", "Failed"})

\* C15: a poll that observes Failed makes waitForBundle throw the
\* execution-failure error, which is not the error of the deadline, and no
\* further poll is made.
C15_FailedRaisesExecutionError ==
    /\ lastStatus = "Failed" =>
          /\ outcome = "Bundle execution failed"
          /\ outcome # "Bundle confirmation timeout"
          /\ wpc = "done"
    /\ outcome = "Bundle execution failed" => lastStatus = "Failed"
    /\ outcome = "Bundle confirmation timeout" =>
          lastStatus \notin {"Failed", "Landed"} /\ elapsed > TimeoutSeconds

\* Failed was observed after earlier polls.
C15_Witness ==
    /\ lastStatus = "Failed"
    /\ polls >= 2
    /\ outcome = "Bundle execution failed"


(***************************************************************************)
(* Claims about sendBundle (SpecBundle).                                   *)
(***************************************************************************)

\* C16: sendBundle with more than 5 transactions rejects before any relay
\* request is made and leaves the rate-limiter counters and the retry counter
\* as they were; a bundle of at most 5 transactions is not rejected by the
\* length test and goes on to checkRateLimit.
C16_OversizedBundleRejectedFirst ==
    [][\A c \in Callers :
          call[c].pc = "idle" /\ call'[c].kind = "bundle" =>
             IF call'[c].size > MAX_BUNDLE_TRANSACTIONS
             THEN /\ call'[c].pc = "failed"
                  /\ rateLimiter' = rateLimiter
                  /\ retryCount' = retryCount
                  /\ admitted' = admitted
             ELSE /\ call'[c].pc \in {"request", "throttle", "rateWait"}
                  /\ admitted' = admitted + 1 \/ call'[c].pc = "rateWait"]_vars

\* An oversized bundle was rejected while the limiter had counted an admission
\* and another call's retry was pending.
C16_Witness ==
    \E c \in Callers :
        /\ call[c].kind = "bundle"
        /\ call[c].size > MAX_BUNDLE_TRANSACTIONS
        /\ call[c].pc = "failed"
        /\ rateLimiter.dailyRequests >= 1
        /\ retryCount >= 1


(***************************************************************************)
(* Claims about getLatestBlockhash (SpecBlockhash).                        *)
(***************************************************************************)

\* C17: getLatestBlockhash returns the regular endpoint's result unchanged
\* when that endpoint succeeds; when it fails, the relay's blockhash is
\* returned with lastValidBlockHeight increased by 150; the call fails only
\* when both endpoints fail.  The fallback returns the relay's result as it
\* is, without the 150 slots.
C17_FallbackAddsBuffer ==
    bpc = "done" =>
       IF regularAnswer.ok
       THEN blockhashResult = Returned(regularAnswer)
       ELSE IF relayAnswer.ok
       THEN blockhashResult =
               [Returned(relayAnswer) EXCEPT
                   !.lastValidBlockHeight = @ + BLOCKHASH_BUFFER_SLOTS]
       ELSE blockhashResult.kind = "thrown"


(***************************************************************************)
(* Claims about getTokenOracleData (SpecOracle).                           *)
(***************************************************************************)

\* Age of the cache entry at the time of a lookup.
EntryAge == oclock - priceCache.timestamp

\* The call that just returned was served from the cache.
ServedFromCache == consulted = <<"cache">>

\* C18: what a call writes to the cache is what it returns; a later call that
\* finds the entry within the TTL returns its price, confidence and source
\* unchanged; an entry whose age is at least the staleness threshold is not
\* served, present or not; nothing is served from the cache but a present
\* entry younger than the threshold.
C18_CacheRoundTrip ==
    [][/\ opc = "idle" /\ opc' # "idle" =>
             /\ priceCache.present /\ EntryAge < TtlTicks =>
                   /\ opc' = "done"
                   /\ oracleResult'.found
             /\ priceCache.present /\ EntryAge >= StaleTicks => opc' = "pyth"
             /\ opc' = "done" =>
                   /\ priceCache.present
                   /\ EntryAge < StaleTicks
                   /\ oracleResult'.price = priceCache.price
                   /\ oracleResult'.confidence = priceCache.confidence
                   /\ oracleResult'.source = priceCache.source
       /\ opc = "fallback" /\ oracleResult'.found =>
             /\ priceCache'.present
             /\ priceCache'.timestamp = oclock
             /\ priceCache'.price = oracleResult'.price
             /\ priceCache'.confidence = oracleResult'.confidence
             /\ priceCache'.source = oracleResult'.source]_vars

\* A Pyth price with its confidence was served from the cache a tick after
\* it was written.
C18_Witness ==
    /\ opc = "done"
    /\ ServedFromCache
    /\ oracleResult.source = "pyth"
    /\ oracleResult.confidence # Undefined
    /\ oclock > priceCache.timestamp

\* The first source, in the order cache, Pyth, Switchboard, fallback table,
\* that had a price for the call that just returned.
FirstAvailable ==
    IF ServedFromCache THEN "cache"
    ELSE IF reserve.pythOracle /\ PythAccepted(pythAnswer) THEN "pyth"
    ELSE IF reserve.switchboardOracle /\ switchboardAnswer # 0 THEN "switchboard"
    ELSE IF reserve.symbol \in FallbackSymbols THEN "fallback"
    ELSE "none"

\* The sources a call has to consult up to the first that has a price.
SourcesNeeded ==
    LET pythGood == reserve.pythOracle /\ PythAccepted(pythAnswer)
        sbGood == reserve.switchboardOracle /\ switchboardAnswer # 0
    IN  <<"cache">>
        \o (IF reserve.pythOracle THEN <<"pyth">> ELSE <<>>)
        \o (IF ~pythGood /\ reserve.switchboardOracle THEN <<"switchboard">>
            ELSE <<>>)
        \o (IF ~pythGood /\ ~sbGood THEN <<"fallback">> ELSE <<>>)

\* C19: the call returns the first available price in the order cache, Pyth,
\* Switchboard, fallback table; a later source is consulted only when every
\* earlier one had no price; the source tag names the supplier; null is
\* returned only when none of the four has a price.
C19_FirstAvailableSourceWins ==
    opc = "done" =>
       /\ oracleResult.found <=> FirstAvailable # "none"
       /\ ~ServedFromCache => consulted = SourcesNeeded
       /\ FirstAvailable = "pyth" =>
             /\ oracleResult.source = "pyth"
             /\ oracleResult.price = BigNumber(pythAnswer.price)
       /\ FirstAvailable = "switchboard" =>
             /\ oracleResult.source = "switchboard"
             /\ oracleResult.price = BigNumber(switchboardAnswer)
       /\ FirstAvailable = "fallback" =>
             /\ oracleResult.source = "fallback"
             /\ oracleResult.price = BigNumber(FallbackPrice(reserve.symbol))

\* Cache, Pyth and Switchboard had no price and the table supplied it.
C19_Witness ==
    /\ opc = "done"
    /\ consulted = <<"cache", "pyth", "switchboard", "fallback">>
    /\ pythAnswer.data
    /\ oracleResult.source = "fallback"

\* confidence / price * 10000 <= REQUIRED_CONFIDENCE_BPS
WithinConfidence(conf, price) ==
    conf * BPS_SCALE <= REQUIRED_CONFIDENCE_BPS * price

\* C20: a Pyth price is taken only if its status is trading and its
\* confidence in basis points is at most REQUIRED_CONFIDENCE_BPS; a price
\* failing either is neither returned nor cached with source 'pyth'.
C20_PythOnlyTradingAndConfident ==
    [][/\ opc = "pyth" /\ source' = "pyth" =>
             /\ pythAnswer'.status = "trading"
             /\ WithinConfidence(pythAnswer'.confidence, pythAnswer'.price)
             /\ priceData' = pythAnswer'.price
             /\ confidence' = pythAnswer'.confidence
       /\ opc = "fallback" /\ oracleResult'.source = "pyth" =>
             /\ pythAnswer.status = "trading"
             /\ WithinConfidence(pythAnswer.confidence, pythAnswer.price)
             /\ oracleResult'.price = BigNumber(pythAnswer.price)
       /\ priceCache'.source = "pyth" =>
             WithinConfidence(priceCache'.confidence, priceCache'.price[2])]_vars

\* A trading Pyth price was turned down for its confidence and the price
\* came from Switchboard.
C20_Witness ==
    /\ opc = "done"
    /\ pythAnswer.data
    /\ pythAnswer.status = "trading"
    /\ pythAnswer.price # 0
    /\ ~WithinConfidence(pythAnswer.confidence, pythAnswer.price)
    /\ oracleResult.source = "switchboard"
    /\ priceCache.source = "switchboard"

(***************************************************************************)
(* Claims about getTokensOracleData (SpecPrices).                          *)
(***************************************************************************)

\* The reserves whose call ended with a price.
ResolvedReserves ==
    {i \in 1..Len(promises) : promises[i].ending \in PriceSources}

\* C21: getTokensOracleData never rejects because reserves fail to resolve,
\* an oracle read that throws included: it returns one entry for each
\* reserve whose price resolved and for no other, in the order of the
\* reserves.
C21_PartialResultsInOrder ==
    /\ tpc # "rejected"
    /\ tpc = "returned" =>
          /\ {tokensOracle[k].reserveAddress : k \in 1..Len(tokensOracle)}
                = ResolvedReserves
          /\ \A j, k \in 1..Len(tokensOracle) :
                j < k => tokensOracle[j].reserveAddress
                            < tokensOracle[k].reserveAddress
          /\ \A k \in 1..Len(tokensOracle) :
                tokensOracle[k].source
                   = promises[tokensOracle[k].reserveAddress].ending

C21_Witness ==
    /\ tpc = "returned"
    /\ Len(promises) = 3
    /\ promises[1].ending = "threw"
    /\ promises[2].ending = "pyth"
    /\ promises[3].ending = "fallback"
    /\ Len(tokensOracle) = 2

(***************************************************************************)
(* Claims about runLiquidator (SpecLoop, SpecLoopFair).                    *)
(***************************************************************************)

\* C22: a rejection of processObligation for one obligation is not rethrown
\* into the market loop and does not touch the consecutive-error counter:
\* from the batch loop the pass only goes on to the next batch or to the
\* unwrap step, and the unwrap step is reached with a processObligation call
\* started for every obligation of the market.
C22_ObligationFailureIsContained ==
    /\ [](mpc = "unwrap" => processed = Len(allObligations))
    /\ [][mpc = "batch" =>
            /\ mpc' \in {"batch", "unwrap"}
            /\ consecutiveErrors' = consecutiveErrors
            /\ processed' >= processed]_vars

C22_Witness ==
    /\ mpc = "unwrap"
    /\ Len(allObligations) = 3
    /\ processed = 3
    /\ rejected = 2
    /\ consecutiveErrors = 1

\* C23: the consecutive-error counter counts the market passes that threw
\* since the last pass that completed, and is reset after every
\* MAX_CONSECUTIVE_ERRORS of them by a sleep of ERROR_COOLDOWN_MS: it has
\* reached MAX_CONSECUTIVE_ERRORS exactly while the orchestrator sleeps, and
\* at the start of every market pass it is at least 0 and below
\* MAX_CONSECUTIVE_ERRORS.
C23_CounterBelowThreshold ==
    mpc \notin {"startup", "exited"} =>
        /\ consecutiveErrors \in 0..MAX_CONSECUTIVE_ERRORS
        /\ (consecutiveErrors = MAX_CONSECUTIVE_ERRORS) <=> (mpc = "cooldown")
        /\ mpc = "cooldown" =>
              /\ timer = ERROR_COOLDOWN_MS
              /\ streak % MAX_CONSECUTIVE_ERRORS = 0
              /\ streak > 0
        /\ mpc # "cooldown" =>
              consecutiveErrors = streak % MAX_CONSECUTIVE_ERRORS
        /\ mpc = "health" =>
              (0 <= consecutiveErrors /\ consecutiveErrors < MAX_CONSECUTIVE_ERRORS)

C23_Witness ==
    /\ mpc = "health"
    /\ streak = MAX_CONSECUTIVE_ERRORS + 1
    /\ consecutiveErrors = 1

\* The passes the bounded run has room for.
AllPasses == MaxEpochs * NumMarkets

\* C24: once startup has succeeded the process never exits and the loop
\* never ends, whatever passes fail: the passes started are over the
\* configured markets in configured order, epoch after epoch, and every pass
\* of every epoch is started eventually.
C24_LoopSurvivesFailures ==
    /\ [](mpc = "exited" => attemptLog = <<>>)
    /\ [](\A k \in 1..Len(attemptLog) :
              attemptLog[k] = ((k - 1) % NumMarkets) + 1)
    /\ (mpc \notin {"startup", "exited"}) ~> (Len(attemptLog) = AllPasses)

C24_Witness ==
    /\ Len(attemptLog) = AllPasses
    /\ streak = AllPasses
    /\ mpc = "health"
    /\ epoch = MaxEpochs

\* C29: when the periodic health check fails, the pass is over: no
\* processObligation call is started in it, the process has not exited, and
\* the failure is counted as one market-level error like any other pass
\* that threw; obligations are processed only in a pass whose health check
\* succeeded.
C29_UnhealthyPassProcessesNothing ==
    /\ ~isHealthy =>
          /\ mpc \in {"health", "cooldown"}
          /\ processed = 0
          /\ streak >= 1
          /\ mpc = "health" =>
                consecutiveErrors = streak % MAX_CONSECUTIVE_ERRORS
          /\ mpc = "cooldown" =>
                consecutiveErrors = MAX_CONSECUTIVE_ERRORS
    /\ processed > 0 => isHealthy
    /\ unhealthySeen => mpc # "exited"

\* Obligations are processed again in a pass after one that failed its
\* health check.
C29_Witness ==
    /\ unhealthySeen
    /\ isHealthy
    /\ mpc = "batch"
    /\ processed > 0

\* The processObligation pipelines in flight: the calls of the current batch
\* that have not settled.
InFlight == {k \in 1..Len(tasks) : tasks[k] = "pending"}

\* C31: in each market pass every fetched obligation is handed to
\* processObligation exactly once: a batch is the slice of the list that
\* starts right after the obligations handed over before it, and when the
\* batch loop has ended all of the list has been handed over; at most
\* LIQUIDATION_BATCH_SIZE pipelines are in flight at any time; and obligations
\* are handed over only when no pipeline of the previous batch is in flight.
C31_BatchesInTurn ==
    /\ [](/\ Cardinality(InFlight) <= LIQUIDATION_BATCH_SIZE
          /\ processed <= Len(allObligations)
          /\ mpc = "batch" =>
                /\ Len(tasks) >= 1
                /\ batchStart + Len(tasks) = processed
          /\ mpc = "unwrap" => processed = Len(allObligations))
    /\ [][processed' > processed => InFlight = {}]_vars

\* A pass over three obligations, handed over in a batch of
\* LIQUIDATION_BATCH_SIZE and a batch of the rest, one call having rejected.
C31_Witness ==
    /\ mpc = "unwrap"
    /\ Len(allObligations) = MaxObligations
    /\ Len(allObligations) > LIQUIDATION_BATCH_SIZE
    /\ processed = Len(allObligations)
    /\ batchStart >= Len(allObligations)
    /\ rejected >= 1

(***************************************************************************)
(* Claims about sortBorrows and comparePubkeys, under SpecSort.            *)
(***************************************************************************)

\* The rearrangements of the positions 1..n.
Rearrangements(n) ==
    {f \in [1..n -> 1..n] : \A i, j \in 1..n : i # j => f[i] # f[j]}

\* a is before b in the order of the unsigned bytes, first byte first.
BytesBefore(a, b) ==
    \E d \in 1..PubkeyBytes :
        /\ toBytes(a)[d] < toBytes(b)[d]
        /\ \A j \in 1..(d - 1) : toBytes(a)[j] = toBytes(b)[j]

\* All reserve addresses of the borrows differ.
DistinctReserves(borrows) ==
    \A i, j \in 1..Len(borrows) :
        i # j => borrows[i].borrowReserve # borrows[j].borrowReserve

\* C35: comparePubkeys is a total order on 32-byte addresses that compares
\* unsigned bytes from the first byte on: its result is -1, 0 or 1, it is
\* antisymmetric and transitive, and it is 0 only for equal keys.  What
\* sortBorrows returns is its argument rearranged by descending borrow
\* weight and then descending address, so for borrows with distinct reserve
\* addresses the first element returned is the same for every rearrangement
\* of the argument.
C35_SortIsCanonical ==
    /\ compared # NoComparison =>
          /\ compared.result \in {-1, 0, 1}
          /\ compared.result = -1 <=> BytesBefore(compared.a, compared.b)
          /\ compared.result = 1 <=> BytesBefore(compared.b, compared.a)
          /\ compared.result = 0 <=> compared.a = compared.b
          /\ compared.result = 0 - comparePubkeys(compared.b, compared.a)
          /\ \A c \in Pubkeys :
                (compared.result <= 0 /\ comparePubkeys(compared.b, c) <= 0)
                    => comparePubkeys(compared.a, c) <= 0
    /\ spc = "sorted" =>
          /\ Len(sortedBorrows) = Len(borrowsArg)
          /\ \E f \in Rearrangements(Len(borrowsArg)) :
                \A i \in 1..Len(borrowsArg) : sortedBorrows[i] = borrowsArg[f[i]]
          /\ \A i, j \in 1..Len(sortedBorrows) :
                i < j =>
                    \/ sortedBorrows[i].addedBorrowWeightBPS
                           > sortedBorrows[j].addedBorrowWeightBPS
                    \/ /\ sortedBorrows[i].addedBorrowWeightBPS
                              = sortedBorrows[j].addedBorrowWeightBPS
                       /\ comparePubkeys(sortedBorrows[i].borrowReserve,
                                         sortedBorrows[j].borrowReserve) >= 0
          /\ (DistinctReserves(borrowsArg) /\ borrowsArg # <<>>) =>
                \A f \in Rearrangements(Len(borrowsArg)) :
                    sortBorrows([i \in 1..Len(borrowsArg) |-> borrowsArg[f[i]]])[1]
                        = sortedBorrows[1]

\* Three borrows of equal weight on distinct reserves, given with the
\* smallest address first and returned with the largest first, after a
\* comparison decided by the first byte against the last.
C35_Witness ==
    /\ spc = "sorted"
    /\ Len(borrowsArg) = 3
    /\ DistinctReserves(borrowsArg)
    /\ \A i \in 1..3 : borrowsArg[i].addedBorrowWeightBPS = 0
    /\ borrowsArg[1].borrowReserve = "lo"
    /\ sortedBorrows[1].borrowReserve = "top"
    /\ compared = [a |-> "top", b |-> "hi", result |-> 1]

(***************************************************************************)
(* Further claims about RateLimiter and JitoConnection, under SpecJito.    *)
(***************************************************************************)

\* C33: within one makeJitoRequest call the delay before the k-th retry is
\* RETRY_DELAY_MS * 2^(k - 1): when a request of the call fails and the call
\* goes to sleep before its k-th retry, the timer is set that far ahead.
C33_RetryDelaysDouble ==
    [][\A c \in Callers :
          (call[c].pc = "request" /\ call'[c].pc = "retrySleep") =>
              call'[c].wakeAt =
                  now + Ticks(RETRY_DELAY_MS * Pow2(call'[c].retries - 1))]_vars

\* Caller c sends an HTTP request to the relay endpoint in this step.
RequestSent(c) == call[c].pc # "request" /\ call'[c].pc = "request"

\* C36: no HTTP request is sent to the relay endpoint, first attempts and
\* retries alike, unless checkRateLimit admitted it immediately beforehand:
\* the request follows the admission in the same step, or the adaptive
\* throttle that ends the admitting run of checkRateLimit.  checkRateLimit
\* never rejects: no call fails out of a rate-limit check or its sleeps.
C36_RequestsAreAdmitted ==
    [][\A c \in Callers :
          /\ RequestSent(c) =>
                admitted' = admitted + 1 \/ call[c].pc = "throttle"
          /\ (call[c].pc # "throttle" /\ call'[c].pc = "throttle") =>
                admitted' = admitted + 1
          /\ (call[c].pc # "failed" /\ call'[c].pc = "failed") =>
                \/ call[c].pc = "request"
                \/ call[c].pc = "enter" /\ ~call[c].wellFormed]_vars

\* The retry of a failed request is in flight, admitted after more than
\* burstRequests earlier admissions, while the other caller sleeps on a cap.
C36_Witness ==
    \E c \in Callers :
        /\ call[c].pc = "request"
        /\ call[c].retries >= 1
        /\ admitted >= burstRequests + 1
        /\ \E d \in Callers : call[d].pc \in {"rateWait", "preWait"}

\* C40: one sendRawTransaction call issues a number of relay requests bounded
\* by a constant that depends only on maxRetries, no makeJitoRequest under it
\* retrying more than maxRetries times, and when it has returned or rejected
\* with no other call in flight the shared retry counter is zero.
C40_SendTerminatesAtZero ==
    \A c \in Callers :
        call[c].kind = "sendRaw" =>
            /\ call[c].retries <= maxRetries
            /\ (/\ call[c].pc \in {"done", "failed"}
                /\ \A d \in Callers \ {c} : call[d].pc = "idle")
                   => retryCount = 0

(***************************************************************************)
(* A further claim about waitForBundle, under SpecWaitStuckFair.           *)
(***************************************************************************)

\* The statuses that waitForBundle does not end on without a timeout.
NotTerminal == {"Invalid", "null"}

\* C37: a bundle whose status is reported as Invalid, or for which no status
\* is returned, is treated as not yet terminal.  A poll with such an answer
\* ends neither in a return nor in an error and is followed by the sleep
\* before the next poll; the call never returns successfully and never
\* raises the execution-failure error; and from every head of the loop on
\* the call ends with the timeout error, unless a request to the relay
\* fails.
C37_InvalidIsNotTerminal ==
    /\ [][(polls' = polls + 1 /\ lastStatus' \in NotTerminal) =>
             (wpc' = "sleep" /\ outcome' = "none")]_vars
    /\ [](outcome \in {"none", "Bundle confirmation timeout",
                        "Jito request error"})
    /\ (wpc = "head") ~>
           \/ outcome = "Bundle confirmation timeout"
           \/ wpc = "backoff"
           \/ outcome = "Jito request error"

\* The call has ended with the timeout error after polls of which the last
\* reported Invalid and none reported Pending.
C37_Witness ==
    /\ outcome = "Bundle confirmation timeout"
    /\ lastStatus = "Invalid"
    /\ pendingPolls = 0
    /\ polls >= 2

====
